---- MODULE Spec2Model ----
(***************************************************************************)
(* The credential and fraud-risk engine of the SmartBank server: the       *)
(* register, login and verify-otp handlers of server/routes/auth.js, the   *)
(* lockout methods of the User model, the risk scorer and attempt ledger   *)
(* of server/middleware/fraudDetector.js and the crypto helpers.           *)
(*                                                                         *)
(* Time is counted in minutes; session tokens count it in seconds, and in *)
(* SpecProc the clock is read to the millisecond.  The risk scorer and the *)
(* ledger write are a call and the completion of its await, two steps.     *)
(* A request handler is a sequence of steps,                               *)
(* one per await of the JavaScript code: a step performs the awaited       *)
(* database operation and then runs the synchronous code up to the next    *)
(* await.  Between two steps of a handler the clock may move and the        *)
(* handlers of other requests may run, as in the Node event loop: Spec      *)
(* interleaves the steps of the requests in flight; in SpecTurns a client   *)
(* sends each request when the last one is answered.                        *)
(***************************************************************************)
EXTENDS Integers, Sequences, FiniteSets, TLC

VARIABLES users, ledger, now, resp, procs, obs, server

vars == <<users, ledger, now, resp, procs, obs, server>>

----------------------------------------------------------------------------
(* Bounds of the model *)

\* the attempt ledger holds at most this many records in SpecTurns
MaxLedger == 7
\* the clock stops advancing here
MaxNow == 30
\* the count of consecutive wrong-credential verdicts saturates here
MaxRun == 6
\* requests in flight at once
MaxProcs == 2
\* the attempt ledger holds at most this many records in Spec
MaxConcLedger == 3
\* the attempt ledger holds at most this many records in SpecScore
MaxHistory == 4
\* the attempt ledger holds at most this many records in SpecEdge
MaxEdgeLedger == 4
\* the attempt ledger holds at most this many records in SpecCipher
MaxCipherLedger == 4
\* the attempt ledger holds at most this many records in SpecDevice
MaxDeviceLedger == 4
\* the attempt ledger holds at most this many records in SpecRace
MaxRaceLedger == 7
\* the server process is started at most this many times in SpecProc
MaxStarts == 3
\* the clock of SpecProc stops advancing here
MaxTokenNow == 15
\* the attempt ledger holds at most this many records in SpecProc
MaxProcLedger == 2
\* digit strings handed to verifyMpin are at most this long (and at least
\* MinProbeLen long)
MaxProbeLen == 7
MinProbeLen == 3
\* a digest has this many bytes (64 in the code; here enough to tell the
\* preimages apart)
DigestLen == 10

----------------------------------------------------------------------------
(* Program constants, in minutes *)

LockMinutes == 30
MaxFailedAttempts == 5
HistoryWindow == 43200
HistoryLimit == 50
RapidWindow == 5
RapidLimit == 3
TokenMinutes == 15
MinPhoneDigits == 10
MaxPhoneDigits == 15

\* lockedUntil / lastLogin: null
NoDate == -1

----------------------------------------------------------------------------
(* Small helpers *)

Digits == {"0", "1", "2", "3", "4", "5", "6", "7", "8", "9"}

IsDigit(c) == c \in Digits

Has(x) == x # <<>>

Min(a, b) == IF a < b THEN a ELSE b

\* the records of a collection, each with its place in the order of insertion
Placed(L) == [i \in 1..Len(L) |-> [at |-> i, rec |-> L[i]]]

\* .sort({ timestamp: -1 }) on placed records: from the newest timestamp to
\* the oldest.  The timestamp is a Date in milliseconds, the clock of the model
\* counts minutes: of the records of one minute the one dated later comes
\* first, and the store is free in the order of those dated at one
\* millisecond.  Here the records of one minute that stand at the places in
\* first come ahead of the others of that minute, and within each of the two
\* groups the one inserted later comes first
SortNewestFirst(s, first) ==
    SortSeq(s, LAMBDA a, b :
                  \/ a.rec.timestamp > b.rec.timestamp
                  \/ /\ a.rec.timestamp = b.rec.timestamp
                     /\ \/ a.at \in first /\ b.at \notin first
                        \/ /\ (a.at \in first) = (b.at \in first)
                           /\ a.at > b.at)

\* the records of placed records
Records(s) == [i \in 1..Len(s) |-> s[i].rec]

Take(s, n) == IF Len(s) <= n THEN s ELSE SubSeq(s, 1, n)

Range(s) == {s[i] : i \in 1..Len(s)}

----------------------------------------------------------------------------
(* The server process: the RSA key pair and the JWT secret *)

\* the server variable: the key files on disk, process.env.JWT_SECRET, the
\* memory of the process when it is up, and the clock of the machine below the
\* minute.  A key pair is named by the number of the generation that made it,
\* a random secret by the number of the draw.
\*   generated   key pairs generated so far
\*   drawn       starts of the process so far
\*   ms          the milliseconds Date.now() is past the minute `now`
Installed ==
    [up |-> FALSE, env |-> <<>>, secret |-> <<>>,
     privateKey |-> <<>>, publicKey |-> <<>>,
     disk |-> [private |-> <<>>, public |-> <<>>],
     generated |-> 0, drawn |-> 0, ms |-> 0]

\* process.env.JWT_SECRET || 'smartbank_jwt_secret_' + randomBytes(16)
JwtSecret(sv) ==
    IF sv.env # <<>> THEN [configured |-> sv.env[1]] ELSE [random |-> sv.drawn + 1]

\* the content of a key file, and of the variable read from it: the PEM of a
\* key of pair k
Pem(k) == [pair |-> k, whole |-> TRUE]

\* the content of a key file whose write did not end: nothing, or the start of
\* the PEM
CutPem(k) == [pair |-> k, whole |-> FALSE]

\* fs.existsSync of private.pem and of public.pem: a file exists whatever it
\* holds
KeyFilesExist(sv) == sv.disk.private # <<>> /\ sv.disk.public # <<>>

\* generateKeyPair rotating the pair at every start
generateKeyPair_Always(sv) ==
    LET k == sv.generated + 1
    IN  [sv EXCEPT !.privateKey = <<Pem(k)>>, !.publicKey = <<Pem(k)>>,
                   !.disk = [private |-> <<Pem(k)>>, public |-> <<Pem(k)>>],
                   !.generated = k]

\* generateKeyPair: read the two files if both exist, whatever they hold,
\* else generate a pair and write it
generateKeyPair(sv) ==
    IF KeyFilesExist(sv)
    THEN [sv EXCEPT !.privateKey = sv.disk.private, !.publicKey = sv.disk.public]
    ELSE LET k == sv.generated + 1
         IN  [sv EXCEPT !.privateKey = <<Pem(k)>>, !.publicKey = <<Pem(k)>>,
                        !.disk = [private |-> <<Pem(k)>>, public |-> <<Pem(k)>>],
                        !.generated = k]

\* the load of config/keys.js: the secret, then generateKeyPair()
Boot(sv) ==
    generateKeyPair([sv EXCEPT !.up = TRUE, !.secret = JwtSecret(sv),
                               !.drawn = @ + 1])

\* where the writing of a generated pair can end: in the writeFileSync of
\* private.pem, between the two calls, in the writeFileSync of public.pem
WriteEnds == {"private", "between", "public"}

\* the files after generateKeyPair generated pair k and its writing ended at
\* `at`: writeFileSync creates or empties the file, then writes, so that the
\* file of a write that fails or is cut short exists
FilesCutAt(sv, k, at) ==
    CASE at = "private" -> [private |-> <<CutPem(k)>>, public |-> sv.disk.public]
      [] at = "between" -> [private |-> <<Pem(k)>>, public |-> sv.disk.public]
      [] at = "public" -> [private |-> <<Pem(k)>>, public |-> <<CutPem(k)>>]

\* the process dying in generateKeyPair while it writes the pair it
\* generated (the process is killed, or writeFileSync throws and the load of
\* the module fails)
BootCrash(sv, at) ==
    LET k == sv.generated + 1
    IN  [sv EXCEPT !.up = FALSE, !.secret = <<>>,
                   !.privateKey = <<>>, !.publicKey = <<>>,
                   !.disk = FilesCutAt(sv, k, at),
                   !.generated = k, !.drawn = @ + 1]

\* the process ends: its memory is gone, the files stay
Halt(sv) ==
    [sv EXCEPT !.up = FALSE, !.secret = <<>>, !.privateKey = <<>>, !.publicKey = <<>>]

----------------------------------------------------------------------------
(* Phone, PIN and crypto helpers *)

\* phone.replace(/\D/g, '')
Sanitize(raw) == SelectSeq(raw, IsDigit)

\* userSchema.phone match /^\d{10,15}$/ (also the length test of verify-otp)
PhoneValid(ph) ==
    /\ Len(ph) >= MinPhoneDigits
    /\ Len(ph) <= MaxPhoneDigits
    /\ \A i \in 1..Len(ph) : IsDigit(ph[i])

\* the MPIN format taking any length from 4 to 6
PinFormatOk_UpToSix(pin) ==
    /\ Len(pin) >= 4 /\ Len(pin) <= 6
    /\ \A i \in 1..Len(pin) : IsDigit(pin[i])

\* /^\d{4}$|^\d{6}$/.test(rawMpin)
PinFormatOk(pin) ==
    /\ Len(pin) \in {4, 6}
    /\ \A i \in 1..Len(pin) : IsDigit(pin[i])

\* a line written with console.error: its text and the detail printed after
ConsoleError(text, detail) == [text |-> text, detail |-> detail]

\* the ways a ciphertext fails in Buffer.from / crypto.privateDecrypt
FailureKinds == {"bad_base64", "bad_padding", "wrong_key"}

\* rsaDecrypt throwing the error of the crypto library as it is
rsaDecrypt_Telling(enc) ==
    IF enc.kind = "oaep"
    THEN [ok |-> TRUE, value |-> enc.plain, error |-> "", logged |-> <<>>]
    ELSE [ok |-> FALSE, value |-> <<>>, error |-> enc.kind,
          logged |-> <<ConsoleError("RSA decryption failed:", <<enc.kind>>)>>]

\* rsaDecrypt writing the plaintext to the console
rsaDecrypt_LogsPlaintext(enc) ==
    IF enc.kind = "oaep"
    THEN [ok |-> TRUE, value |-> enc.plain, error |-> "",
          logged |-> <<ConsoleError("RSA decrypted:", enc.plain)>>]
    ELSE [ok |-> FALSE, value |-> <<>>,
          error |-> "Decryption failed - invalid encrypted data",
          logged |-> <<ConsoleError("RSA decryption failed:", <<enc.kind>>)>>]

\* rsaDecrypt: the plaintext of a well-formed OAEP ciphertext, else the one
\* generic error, whatever went wrong; the catch writes the message of the
\* error caught to the console
rsaDecrypt(enc) ==
    IF enc.kind = "oaep"
    THEN [ok |-> TRUE, value |-> enc.plain, error |-> "", logged |-> <<>>]
    ELSE [ok |-> FALSE, value |-> <<>>,
          error |-> "Decryption failed - invalid encrypted data",
          logged |-> <<ConsoleError("RSA decryption failed:", <<enc.kind>>)>>]

\* sha512Hash: the digest of salt + mpin, modelled as an injective function of
\* the concatenation
sha512Hash(mpin, salt) == [sha512 |-> salt \o mpin]

\* the bytes of a digest, Buffer.from(hash, 'hex'): DigestLen bytes whatever
\* was hashed, the preimage padded with "" standing for them
DigestBytes(hash) ==
    [i \in 1..DigestLen |-> IF i <= Len(hash.sha512) THEN hash.sha512[i] ELSE ""]

\* the value crypto.timingSafeEqual returns on buffers of one length: whether
\* they hold the same bytes.  How long the routine of the runtime takes is no
\* part of this model.
timingSafeEqual(a, b) == a = b

\* the comparison made by verifyMpin: the recomputed digest against the
\* stored one
CompareDigests(inputMpin, storedHash, salt) ==
    timingSafeEqual(DigestBytes(sha512Hash(inputMpin, salt)), DigestBytes(storedHash))

\* verifyMpin accepting every input as long as the PIN hashed
verifyMpin_LengthOnly(inputMpin, storedHash, salt) ==
    Len(sha512Hash(inputMpin, salt).sha512) = Len(storedHash.sha512)

\* verifyMpin: recompute and compare
verifyMpin(inputMpin, storedHash, salt) ==
    CompareDigests(inputMpin, storedHash, salt)

\* Date.now() at minute t: milliseconds
ClockMillis(t) == t * 60000 + server.ms

\* Math.floor(Date.now() / 1000) at minute t: the whole seconds of the clock,
\* as generateToken and jsonwebtoken count them
ClockSeconds(t) == t * 60 + server.ms \div 1000

\* generateToken: the claims of a session, signed with the JWT secret of the
\* process; iat is the second of the call and exp is 15 minutes of seconds
\* after it (expiresIn: '15m').  late is what Math.floor cut off, the
\* milliseconds the call is past the second iat, which the token does not
\* carry: it is kept to tell how long the token lived.
generateToken(userId, phone, t) ==
    [userId |-> userId, phone |-> phone,
     iat |-> ClockSeconds(t), exp |-> ClockSeconds(t) + TokenMinutes * 60,
     iss |-> "SmartBank", aud |-> "smartbank-app", key |-> server.secret,
     late |-> server.ms % 1000]

\* verifyToken accepting a token in the second it expires
verifyToken_InclusiveExpiry(token, t) ==
    IF /\ token.key = server.secret
       /\ token.iss = "SmartBank" /\ token.aud = "smartbank-app"
       /\ ClockSeconds(t) <= token.exp
    THEN <<[userId |-> token.userId, phone |-> token.phone,
            iat |-> token.iat, exp |-> token.exp]>>
    ELSE <<>>

\* verifyToken: the decoded claims, or null (<<>>) when the signature, the
\* issuer or the audience do not match or the token has expired (the second
\* of the clock >= exp)
verifyToken(token, t) ==
    IF /\ token.key = server.secret
       /\ token.iss = "SmartBank" /\ token.aud = "smartbank-app"
       /\ ClockSeconds(t) < token.exp
    THEN <<[userId |-> token.userId, phone |-> token.phone,
            iat |-> token.iat, exp |-> token.exp]>>
    ELSE <<>>

----------------------------------------------------------------------------
(* The User model (mongoose documents) *)

\* a device binding of deviceSchema
NewDevice(fingerprint, userAgent, t) ==
    [fingerprint |-> fingerprint, userAgent |-> userAgent,
     lastUsed |-> t, trusted |-> TRUE]

\* the document User.create stores: schema defaults for the fields not given
NewUser(id, phone, mpinHash, salt, devices, t) ==
    [id |-> id, phone |-> phone, mpinHash |-> mpinHash, mpinSalt |-> salt,
     devices |-> devices, failedAttempts |-> 0, lockedUntil |-> NoDate,
     createdAt |-> t, lastLogin |-> NoDate, v |-> 0]

\* User.findOne({ phone }): <<>> (null) or <<document>>
FindOne(U, phone) == IF phone \in DOMAIN U THEN <<U[phone]>> ELSE <<>>

\* a document in memory: its fields, the paths modified since it was loaded
\* or saved, and the pending change of the devices array
\*   devOp = "none" | "push" (a binding appended) | "set" (devices[devIdx].lastUsed)
Loaded(rec) == [rec |-> rec, dirty |-> {}, devOp |-> "none", devIdx |-> 0]

NoDoc == [rec |-> <<>>, dirty |-> {}, devOp |-> "none", devIdx |-> 0]

\* an assignment to a path of a document: the path is marked modified when the
\* value changes
SetPath(d, path, val) ==
    IF d.rec[path] = val THEN d
    ELSE [d EXCEPT !.rec = [@ EXCEPT ![path] = val], !.dirty = @ \cup {path}]

\* an assignment of a fresh Date (new Date()): always a modification
SetDate(d, path, val) ==
    [d EXCEPT !.rec = [@ EXCEPT ![path] = val], !.dirty = @ \cup {path}]

\* isLocked with the expiry minute still locked (<= for <)
isLocked_Inclusive(u, t) == IF u.lockedUntil = NoDate THEN FALSE ELSE t <= u.lockedUntil

\* isLocked holding once a lock was set, whatever the time
isLocked_Sticky(u, t) == u.lockedUntil # NoDate

\* userSchema.methods.isLocked
isLocked(u, t) == IF u.lockedUntil = NoDate THEN FALSE ELSE t < u.lockedUntil

\* the lock-expiry a failure sets: Date.now() + 30 * 60 * 1000
LockExpiry(t) == t + LockMinutes

\* incrementFailedAttempts locking one failure late (> for >=)
incrementFailedAttempts_LockLate(d, t) ==
    LET d1 == SetPath(d, "failedAttempts", d.rec.failedAttempts + 1)
    IN  IF d1.rec.failedAttempts > MaxFailedAttempts
        THEN SetPath(SetDate(d1, "lockedUntil", t + LockMinutes), "failedAttempts", 0)
        ELSE d1

\* incrementFailedAttempts setting the lock without resetting the counter
incrementFailedAttempts_NoReset(d, t) ==
    LET d1 == SetPath(d, "failedAttempts", d.rec.failedAttempts + 1)
    IN  IF d1.rec.failedAttempts >= MaxFailedAttempts
        THEN SetDate(d1, "lockedUntil", t + LockMinutes)
        ELSE d1

\* userSchema.methods.incrementFailedAttempts, up to its save()
incrementFailedAttempts(d, t) ==
    LET d1 == SetPath(d, "failedAttempts", d.rec.failedAttempts + 1)
    IN  IF d1.rec.failedAttempts >= MaxFailedAttempts
        THEN SetPath(SetDate(d1, "lockedUntil", LockExpiry(t)), "failedAttempts", 0)
        ELSE d1

\* resetFailedAttempts leaving the counter as it is
resetFailedAttempts_KeepsCounter(d, t) ==
    SetDate(SetPath(d, "lockedUntil", NoDate), "lastLogin", t)

\* userSchema.methods.resetFailedAttempts, up to its save()
resetFailedAttempts(d, t) ==
    SetDate(SetPath(SetPath(d, "failedAttempts", 0), "lockedUntil", NoDate),
            "lastLogin", t)

\* document.save(): one update that $sets the modified paths, $pushes an
\* appended binding (and increments the version key), or $sets the lastUsed of
\* a binding by position, which matches only the version the document was
\* loaded at (VersionError otherwise).  Another request's writes to other
\* paths are kept, and its writes to the same paths are overwritten.
SaveOk(U, d) ==
    /\ d.rec.phone \in DOMAIN U
    /\ d.devOp = "set" => U[d.rec.phone].v = d.rec.v

SaveWrite(U, d) ==
    LET old == U[d.rec.phone]
        set == [f \in DOMAIN old |-> IF f \in d.dirty THEN d.rec[f] ELSE old[f]]
        written ==
            CASE d.devOp = "push" ->
                   [set EXCEPT !.devices = Append(old.devices, d.rec.devices[Len(d.rec.devices)]),
                               !.v = old.v + 1]
              [] d.devOp = "set" ->
                   [set EXCEPT !.devices[d.devIdx].lastUsed = d.rec.devices[d.devIdx].lastUsed]
              [] OTHER -> set
    IN  [U EXCEPT ![d.rec.phone] = written]

\* the document after a successful save: nothing pending, version as stored
Saved(d) ==
    [d EXCEPT !.dirty = {}, !.devOp = "none", !.devIdx = 0,
              !.rec.v = IF d.devOp = "push" THEN @ + 1 ELSE @]

----------------------------------------------------------------------------
(* The attempt ledger and the risk scorer *)

\* LoginAttempt.create in logLoginAttempt: the defaults of the call, the
\* timestamp default Date.now
AttemptRecord(data, t) ==
    [phone |-> data.phone, ip |-> data.ip,
     fingerprint |-> IF data.fingerprint = "" THEN "unknown" ELSE data.fingerprint,
     userAgent |-> data.userAgent,
     success |-> data.success,
     reason |-> IF data.reason = "" THEN "success" ELSE data.reason,
     riskScore |-> data.riskScore,
     timestamp |-> t]

\* logLoginAttempt called at t, on the ledger L its insert finds: the record,
\* dated at the call, is appended; a failed write is logged and swallowed
logLoginAttempt(L, data, t, writeOk) ==
    IF writeOk THEN Append(L, AttemptRecord(data, t)) ELSE L

\* the orders the store can return the records of one minute in, as far as
\* the answer of the query issued at t depends on it: where the limit cuts
\* through the records of one minute, each choice of those that are returned
\* (their places in L); the empty set where the limit cuts through no minute
TieOrders(L, phone, t) ==
    LET InWindow(a) == a.rec.phone = phone /\ a.rec.timestamp >= t - HistoryWindow
        s == SortNewestFirst(SelectSeq(Placed(L), InWindow), {})
    IN  IF Len(s) <= HistoryLimit
        THEN {{}}
        ELSE LET minute == s[HistoryLimit].rec.timestamp
                 newer == Cardinality({k \in 1..Len(s) : s[k].rec.timestamp > minute})
                 cut == {s[k].at : k \in {j \in 1..Len(s) : s[j].rec.timestamp = minute}}
             IN  IF s[HistoryLimit + 1].rec.timestamp # minute
                 THEN {{}}
                 ELSE {S \in SUBSET cut : Cardinality(S) = HistoryLimit - newer}

\* RecentAttempts without the limit of the query
RecentAttempts_NoLimit(L, phone, t, first) ==
    LET InWindow(a) == a.rec.phone = phone /\ a.rec.timestamp >= t - HistoryWindow
    IN  Records(SortNewestFirst(SelectSeq(Placed(L), InWindow), first))

\* RecentAttempts leaving out the attempts exactly 30 days old ($gt for $gte)
RecentAttempts_ExclusiveWindow(L, phone, t, first) ==
    LET InWindow(a) == a.rec.phone = phone /\ a.rec.timestamp > t - HistoryWindow
    IN  Records(Take(SortNewestFirst(SelectSeq(Placed(L), InWindow), first),
                     HistoryLimit))

\* LoginAttempt.find({phone, timestamp >= now - 30 days}).sort(-timestamp).limit(50)
\* issued at t: the ledger is in insertion order, which need not be the order
\* of the timestamps; first is the store's choice among the records of one
\* minute
RecentAttempts(L, phone, t, first) ==
    LET InWindow(a) == a.rec.phone = phone /\ a.rec.timestamp >= t - HistoryWindow
    IN  Records(Take(SortNewestFirst(SelectSeq(Placed(L), InWindow), first),
                     HistoryLimit))

\* new Date().getHours(), the clock starting at a midnight
HourOf(t) == (t \div 60) % 24

\* UnusualHour taking the bounds of the interval as usual hours
UnusualHour_Exclusive(t) == HourOf(t) > 2 /\ HourOf(t) < 5

\* hour >= 2 && hour <= 5
UnusualHour(t) == HourOf(t) >= 2 /\ HourOf(t) <= 5

\* the action for a score, blocking from the warn threshold
RiskAction_BlockOnWarn(score) == IF score > 30 THEN "block" ELSE "allow"

\* the action for a score, blocking above 50
RiskAction_BlockAboveFifty(score) ==
    IF score > 50 THEN "block" ELSE IF score > 30 THEN "warn" ELSE "allow"

\* the action for a score
RiskAction(score) ==
    IF score > 60 THEN "block" ELSE IF score > 30 THEN "warn" ELSE "allow"

\* the try block with its rules altered:
\*   knownFromAll   known IPs and fingerprints are those of all the attempts
\*   rapidFailed    only failed attempts count as rapid
ScoreVariant(recent, currentIp, fingerprint, t, knownFromAll, rapidFailed) ==
    LET Succeeded(a) == a.success \/ knownFromAll
        Failed(a) == ~a.success
        Rapid(a) == a.timestamp >= t - RapidWindow /\ (rapidFailed => ~a.success)
        ok == SelectSeq(recent, Succeeded)
        knownIps == {ok[i].ip : i \in 1..Len(ok)}
        knownFingerprints == {ok[i].fingerprint : i \in 1..Len(ok)}
        first == Len(recent) = 0
        newIp == ~first /\ knownIps # {} /\ currentIp \notin knownIps
        newDevice == ~first /\ knownFingerprints # {} /\ fingerprint \notin knownFingerprints
        rapid == ~first /\ Len(SelectSeq(recent, Rapid)) > RapidLimit
        highFail == ~first /\ 2 * Len(SelectSeq(recent, Failed)) > Len(recent)
        unusual == UnusualHour(t)
        flags == (IF first THEN <<"first_login">> ELSE <<>>)
              \o (IF newIp THEN <<"new_ip">> ELSE <<>>)
              \o (IF newDevice THEN <<"new_device">> ELSE <<>>)
              \o (IF rapid THEN <<"rapid_attempts">> ELSE <<>>)
              \o (IF highFail THEN <<"high_failure_rate">> ELSE <<>>)
              \o (IF unusual THEN <<"unusual_hour">> ELSE <<>>)
        score == (IF first THEN 5 ELSE 0) + (IF newIp THEN 20 ELSE 0)
               + (IF newDevice THEN 25 ELSE 0) + (IF rapid THEN 30 ELSE 0)
               + (IF highFail THEN 15 ELSE 0) + (IF unusual THEN 10 ELSE 0)
    IN  [score |-> Min(score, 100), flags |-> flags, action |-> RiskAction(score)]

\* ScoreHistory taking the IPs and fingerprints of failed attempts as known
ScoreHistory_KnownFromAll(recent, currentIp, fingerprint, t) ==
    ScoreVariant(recent, currentIp, fingerprint, t, TRUE, FALSE)

\* ScoreHistory counting only failed attempts as rapid
ScoreHistory_RapidFailed(recent, currentIp, fingerprint, t) ==
    ScoreVariant(recent, currentIp, fingerprint, t, FALSE, TRUE)

\* ScoreHistory counting the attempt being scored among the rapid attempts:
\* three recorded in the last 5 minutes are enough
ScoreHistory_CountsCurrent(recent, currentIp, fingerprint, t) ==
    LET Succeeded(a) == a.success
        Failed(a) == ~a.success
        Rapid(a) == a.timestamp >= t - RapidWindow
        ok == SelectSeq(recent, Succeeded)
        knownIps == {ok[i].ip : i \in 1..Len(ok)}
        knownFingerprints == {ok[i].fingerprint : i \in 1..Len(ok)}
        first == Len(recent) = 0
        newIp == ~first /\ knownIps # {} /\ currentIp \notin knownIps
        newDevice == ~first /\ knownFingerprints # {} /\ fingerprint \notin knownFingerprints
        rapid == ~first /\ Len(SelectSeq(recent, Rapid)) + 1 > RapidLimit
        highFail == ~first /\ 2 * Len(SelectSeq(recent, Failed)) > Len(recent)
        unusual == UnusualHour(t)
        flags == (IF first THEN <<"first_login">> ELSE <<>>)
              \o (IF newIp THEN <<"new_ip">> ELSE <<>>)
              \o (IF newDevice THEN <<"new_device">> ELSE <<>>)
              \o (IF rapid THEN <<"rapid_attempts">> ELSE <<>>)
              \o (IF highFail THEN <<"high_failure_rate">> ELSE <<>>)
              \o (IF unusual THEN <<"unusual_hour">> ELSE <<>>)
        score == (IF first THEN 5 ELSE 0) + (IF newIp THEN 20 ELSE 0)
               + (IF newDevice THEN 25 ELSE 0) + (IF rapid THEN 30 ELSE 0)
               + (IF highFail THEN 15 ELSE 0) + (IF unusual THEN 10 ELSE 0)
    IN  [score |-> Min(score, 100), flags |-> flags, action |-> RiskAction(score)]

\* the body of calculateRiskScore's try block
ScoreHistory(recent, currentIp, fingerprint, t) ==
    LET Succeeded(a) == a.success
        Failed(a) == ~a.success
        Rapid(a) == a.timestamp >= t - RapidWindow
        ok == SelectSeq(recent, Succeeded)
        knownIps == {ok[i].ip : i \in 1..Len(ok)}
        knownFingerprints == {ok[i].fingerprint : i \in 1..Len(ok)}
        first == Len(recent) = 0
        newIp == ~first /\ knownIps # {} /\ currentIp \notin knownIps
        newDevice == ~first /\ knownFingerprints # {} /\ fingerprint \notin knownFingerprints
        rapid == ~first /\ Len(SelectSeq(recent, Rapid)) > RapidLimit
        \* failRatio > 0.5, failRatio = fails / max(length, 1)
        highFail == ~first /\ 2 * Len(SelectSeq(recent, Failed)) > Len(recent)
        unusual == UnusualHour(t)
        flags == (IF first THEN <<"first_login">> ELSE <<>>)
              \o (IF newIp THEN <<"new_ip">> ELSE <<>>)
              \o (IF newDevice THEN <<"new_device">> ELSE <<>>)
              \o (IF rapid THEN <<"rapid_attempts">> ELSE <<>>)
              \o (IF highFail THEN <<"high_failure_rate">> ELSE <<>>)
              \o (IF unusual THEN <<"unusual_hour">> ELSE <<>>)
        score == (IF first THEN 5 ELSE 0) + (IF newIp THEN 20 ELSE 0)
               + (IF newDevice THEN 25 ELSE 0) + (IF rapid THEN 30 ELSE 0)
               + (IF highFail THEN 15 ELSE 0) + (IF unusual THEN 10 ELSE 0)
    IN  [score |-> Min(score, 100), flags |-> flags, action |-> RiskAction(score)]

\* calculateRiskScore blocking the attempt when the ledger cannot be read
calculateRiskScore_FailClosed(L, phone, currentIp, fingerprint, called, t, readOk, first) ==
    IF readOk
    THEN ScoreHistory(RecentAttempts(L, phone, called, first), currentIp, fingerprint, t)
    ELSE [score |-> 100, flags |-> <<"detection_error">>, action |-> "block"]

\* calculateRiskScore called at `called`, its query answered at t with the
\* attempts of ledger L: the 30 days of the query end at the call, the 5
\* minutes of the rapid attempts and the hour are read at the answer; the
\* fallback when the ledger cannot be read; first is the store's choice among
\* the records of one minute
calculateRiskScore(L, phone, currentIp, fingerprint, called, t, readOk, first) ==
    IF readOk
    THEN ScoreHistory(RecentAttempts(L, phone, called, first), currentIp, fingerprint, t)
    ELSE [score |-> 10, flags |-> <<"detection_error">>, action |-> "allow"]

\* no assessment made
NoRisk == [score |-> 0, flags |-> <<>>, action |-> "none"]

----------------------------------------------------------------------------
(* Requests and the state of a request being handled *)

\* a request: the body (phone, encryptedMpin, fingerprint; firebaseToken or
\* demoMode as otpProof), req.ip, the user-agent header, and what the
\* environment does to it: whether the ledger can be read and written, and the
\* salt generateSalt() draws
Request(phone, enc, fingerprint, ip, userAgent, otpProof, readOk, writeOk, salt) ==
    [phone |-> phone, enc |-> enc, fingerprint |-> fingerprint, ip |-> ip,
     userAgent |-> userAgent, otpProof |-> otpProof,
     readOk |-> readOk, writeOk |-> writeOk, salt |-> salt]

NoEnc == [kind |-> "missing", plain |-> <<>>]

NoRequest == Request(<<>>, NoEnc, "", "", "", FALSE, TRUE, TRUE, <<>>)

\* the handler's local variables and, once it has answered, its response:
\*   phone      sanitizedPhone
\*   doc, pre   the user document in memory, and as it was loaded
\*   risk       riskAssessment
\*   calls      the gates run so far, in order
\*   logs       the calls of logLoginAttempt made
\*   verdict, status, at      the response, and when it was sent
\*   remaining, token, reverify, isNewUser   fields of the response body
\*   console    what the handler wrote with console.error
\*   out        the value returned by a function called on its own
\*   issued     when the operation the handler awaits was called
\*   steps      the times at which the handler has run: steps[1] when findOne
\*              answered, steps[2] when the operation awaited next did, ...
\*   ties       the store's choice among the attempts of one minute, for the
\*              query of the risk scorer
NewProc(op, pc, req) ==
    [op |-> op, pc |-> pc, req |-> req, phone |-> <<>>, doc |-> NoDoc,
     pre |-> <<>>, risk |-> NoRisk, calls |-> <<>>, logs |-> 0,
     verdict |-> "", status |-> 0, at |-> -1, issued |-> -1, steps |-> <<>>,
     ties |-> {},
     remaining |-> -1, token |-> <<>>, reverify |-> FALSE, isNewUser |-> FALSE,
     console |-> <<>>, out |-> <<>>]

Idle == NewProc("none", "idle", NoRequest)

\* res.status(status).json(...): the handler is done
Finish(p, verdict, status, t) ==
    [p EXCEPT !.pc = "done", !.verdict = verdict, !.status = status, !.at = t]

\* the result of a step: the stores and the handler after it
Out(U, L, p) == [users |-> U, ledger |-> L, p |-> p]

\* the attempt data a handler passes to logLoginAttempt
AttemptData(p, userAgent, success, reason, riskScore) ==
    [phone |-> p.phone, ip |-> p.req.ip, fingerprint |-> p.req.fingerprint,
     userAgent |-> userAgent, success |-> success, reason |-> reason,
     riskScore |-> riskScore]

\* logLoginAttempt called by a handler at p.issued, its insert completing at
\* t: the record carries the time of the call
Logged(L, p, userAgent, success, reason, riskScore, t) ==
    logLoginAttempt(L, AttemptData(p, userAgent, success, reason, riskScore),
                    p.issued, p.req.writeOk)

\* the handler after a call of logLoginAttempt: a write that fails is written
\* to the console by the catch of logLoginAttempt
AfterLog(p) ==
    [p EXCEPT !.logs = @ + 1,
              !.console = IF p.req.writeOk THEN @
                          ELSE Append(@, ConsoleError("Failed to log login attempt:",
                                                      <<"write failed">>))]

\* the handler after a call of calculateRiskScore: a read that fails is
\* written to the console by the catch of calculateRiskScore
AfterScore(p) ==
    [p EXCEPT !.console = IF p.req.readOk THEN @
                          ELSE Append(@, ConsoleError("Fraud detection error:",
                                                      <<"read failed">>))]

\* the handler after a call of rsaDecrypt
AfterDecrypt(p, dec) == [p EXCEPT !.console = @ \o dec.logged]

\* the catch of a handler: the error is written to the console, the answer is
\* a 500
Caught(p, text, detail, t) ==
    Finish([p EXCEPT !.console = Append(@, ConsoleError(text, detail))],
           "ServerError", 500, t)

\* fingerprint || 'unknown'
FingerprintOrUnknown(fp) == IF fp = "" THEN "unknown" ELSE fp

\* the position of the first binding with the fingerprint, 0 if there is none
DeviceIndex(devices, fp) ==
    IF \E i \in 1..Len(devices) : devices[i].fingerprint = fp
    THEN CHOOSE i \in 1..Len(devices) :
            /\ devices[i].fingerprint = fp
            /\ \A j \in 1..(i - 1) : devices[j].fingerprint # fp
    ELSE 0

----------------------------------------------------------------------------
(* POST /login, step by step *)

\* the login going on to the risk gate without the lock check
LoginFind_NoLockCheck(U, L, p, t) ==
    IF p.req.phone = <<>> \/ p.req.enc.kind = "missing"
    THEN Out(U, L, Finish(p, "InvalidInput", 400, t))
    ELSE LET ph == Sanitize(p.req.phone)
             found == FindOne(U, ph)
             q == [p EXCEPT !.phone = ph]
         IN  IF found = <<>>
             THEN Out(U, L, Finish(q, "NotFound", 404, t))
             ELSE Out(U, L, [q EXCEPT !.doc = Loaded(found[1]), !.pre = found,
                                      !.calls = <<"lock">>, !.pc = "score"])

\* input validation, User.findOne, the lock check
LoginFind(U, L, p, t) ==
    IF p.req.phone = <<>> \/ p.req.enc.kind = "missing"
    THEN Out(U, L, Finish(p, "InvalidInput", 400, t))
    ELSE LET ph == Sanitize(p.req.phone)
             found == FindOne(U, ph)
             q == [p EXCEPT !.phone = ph]
         IN  IF found = <<>>
             THEN Out(U, L, Finish(q, "NotFound", 404, t))
             ELSE LET r == [q EXCEPT !.doc = Loaded(found[1]), !.pre = found,
                                     !.calls = <<"lock">>]
                  IN  IF isLocked(found[1], t)
                      THEN Out(U, L, [r EXCEPT !.pc = "logLocked"])
                      ELSE Out(U, L, [r EXCEPT !.pc = "score"])

\* the locked account recorded as a wrong MPIN
LoginLogLocked_AsWrongMpin(U, L, p, t) ==
    Out(U, Logged(L, p, "", FALSE, "wrong_mpin", 0, t),
        Finish(AfterLog(p), "AccountLocked", 423, t))

\* the attempt record and the response of a locked account
LoginLogLocked(U, L, p, t) ==
    Out(U, Logged(L, p, "", FALSE, "account_locked", 0, t),
        Finish(AfterLog(p), "AccountLocked", 423, t))

\* the credential check counting a ciphertext that does not decrypt as a
\* failure
LoginVerify_CountsGarbled(U, L, p, t) ==
    LET dec == rsaDecrypt(p.req.enc)
        q == AfterDecrypt([p EXCEPT !.calls = Append(@, "decrypt")], dec)
    IN  IF ~dec.ok
        THEN Out(SaveWrite(U, incrementFailedAttempts(p.doc, t)), L,
                 Finish(q, "InvalidCiphertext", 400, t))
        ELSE LET r == [q EXCEPT !.calls = Append(@, "verify")]
             IN  IF ~verifyMpin(dec.value, p.doc.rec.mpinHash, p.doc.rec.mpinSalt)
                 THEN Out(U, L, [r EXCEPT !.doc = incrementFailedAttempts(@, t),
                                          !.pc = "saveFailed"])
                 ELSE Out(U, L, [r EXCEPT !.doc = resetFailedAttempts(@, t),
                                          !.pc = "saveReset"])

\* the credential check after the risk gate: rsaDecrypt, verifyMpin, then the
\* lockout method up to its save()
LoginVerify(U, L, p, t) ==
    LET dec == rsaDecrypt(p.req.enc)
        q == AfterDecrypt([p EXCEPT !.calls = Append(@, "decrypt")], dec)
    IN  IF ~dec.ok
        THEN Out(U, L, Finish(q, "InvalidCiphertext", 400, t))
        ELSE LET r == [q EXCEPT !.calls = Append(@, "verify")]
             IN  IF ~verifyMpin(dec.value, p.doc.rec.mpinHash, p.doc.rec.mpinSalt)
                 THEN Out(U, L, [r EXCEPT !.doc = incrementFailedAttempts(@, t),
                                          !.pc = "saveFailed"])
                 ELSE Out(U, L, [r EXCEPT !.doc = resetFailedAttempts(@, t),
                                          !.pc = "saveReset"])

\* the login decrypting before the risk gate
LoginScore_DecryptFirst(U, L, p, t) ==
    LET risk == calculateRiskScore(L, p.phone, p.req.ip,
                                   FingerprintOrUnknown(p.req.fingerprint),
                                   p.issued, t, p.req.readOk, p.ties)
        dec == rsaDecrypt(p.req.enc)
        q == AfterDecrypt(AfterScore([p EXCEPT !.risk = risk,
                                               !.calls = @ \o <<"score", "decrypt">>]),
                          dec)
        r == [q EXCEPT !.calls = Append(@, "verify")]
    IN  IF ~dec.ok
        THEN Out(U, L, Finish(q, "InvalidCiphertext", 400, t))
        ELSE IF risk.action = "block"
        THEN Out(U, L, [q EXCEPT !.pc = "logBlocked"])
        ELSE IF ~verifyMpin(dec.value, p.doc.rec.mpinHash, p.doc.rec.mpinSalt)
        THEN Out(U, L, [r EXCEPT !.doc = incrementFailedAttempts(@, t),
                                 !.pc = "saveFailed"])
        ELSE Out(U, L, [r EXCEPT !.doc = resetFailedAttempts(@, t),
                                 !.pc = "saveReset"])

\* calculateRiskScore and the risk gate, then the credential check
LoginScore(U, L, p, t) ==
    LET risk == calculateRiskScore(L, p.phone, p.req.ip,
                                   FingerprintOrUnknown(p.req.fingerprint),
                                   p.issued, t, p.req.readOk, p.ties)
        q == AfterScore([p EXCEPT !.risk = risk, !.calls = Append(@, "score")])
    IN  IF risk.action = "block"
        THEN Out(U, L, [q EXCEPT !.pc = "logBlocked"])
        ELSE LoginVerify(U, L, q, t)

\* the blocked attempt counted as a failed attempt of the identity
LoginLogBlocked_CountsFailure(U, L, p, t) ==
    Out(SaveWrite(U, incrementFailedAttempts(p.doc, t)),
        Logged(L, p, "", FALSE, "fraud_detected", p.risk.score, t),
        Finish([AfterLog(p) EXCEPT !.reverify = TRUE], "RiskBlocked", 403, t))

\* the attempt record and the response of a blocked attempt
LoginLogBlocked(U, L, p, t) ==
    Out(U, Logged(L, p, "", FALSE, "fraud_detected", p.risk.score, t),
        Finish([AfterLog(p) EXCEPT !.reverify = TRUE], "RiskBlocked", 403, t))

\* const remaining = 5 - user.failedAttempts
AttemptsRemaining(u) == MaxFailedAttempts - u.failedAttempts

\* the save() of incrementFailedAttempts, then remaining
LoginSaveFailed(U, L, p, t) ==
    Out(SaveWrite(U, p.doc), L,
        [p EXCEPT !.doc = Saved(@), !.remaining = AttemptsRemaining(p.doc.rec),
                  !.pc = "logWrong"])

\* the wrong-MPIN branch with a logLoginAttempt that throws when the write
\* fails: the handler's catch answers
LoginLogWrong_Throws(U, L, p, t) ==
    IF p.req.writeOk
    THEN Out(U, Logged(L, p, "", FALSE, "wrong_mpin", p.risk.score, t),
             Finish(AfterLog(p), "WrongCredential", 401, t))
    ELSE Out(U, L, Caught([p EXCEPT !.logs = @ + 1], "Login error:", <<"write failed">>, t))

\* the attempt record and the response of a wrong MPIN
LoginLogWrong(U, L, p, t) ==
    Out(U, Logged(L, p, "", FALSE, "wrong_mpin", p.risk.score, t),
        Finish(AfterLog(p), "WrongCredential", 401, t))

\* device binding pushing a binding at every login, known fingerprint or not
BindDevice_AlwaysPush(d, fp, userAgent, t) ==
    [d EXCEPT !.rec.devices = Append(@, NewDevice(fp, userAgent, t)),
              !.devOp = "push"]

\* device binding: push a first-seen fingerprint, else touch lastUsed; both
\* up to the save()
BindDevice(d, fp, userAgent, t) ==
    LET i == DeviceIndex(d.rec.devices, fp)
    IN  IF i = 0
        THEN [d EXCEPT !.rec.devices = Append(@, NewDevice(fp, userAgent, t)),
                       !.devOp = "push"]
        ELSE [d EXCEPT !.rec.devices[i].lastUsed = t, !.devOp = "set", !.devIdx = i]

\* the save() of resetFailedAttempts, then device binding or the token
LoginSaveReset(U, L, p, t) ==
    LET q == [p EXCEPT !.doc = Saved(@)]
    IN  IF p.req.fingerprint # ""
        THEN Out(SaveWrite(U, p.doc), L,
                 [q EXCEPT !.doc = BindDevice(@, p.req.fingerprint, p.req.userAgent, t),
                           !.pc = "saveDevice"])
        ELSE Out(SaveWrite(U, p.doc), L,
                 [q EXCEPT !.token = <<generateToken(p.doc.rec.id, p.phone, t)>>,
                           !.pc = "logSuccess"])

\* the save() of the device binding, then the token; a save that fails throws
\* into the handler's catch
LoginSaveDevice(U, L, p, t) ==
    IF SaveOk(U, p.doc)
    THEN Out(SaveWrite(U, p.doc), L,
             [p EXCEPT !.doc = Saved(@),
                       !.token = <<generateToken(p.doc.rec.id, p.phone, t)>>,
                       !.pc = "logSuccess"])
    ELSE Out(U, L, Caught(p, "Login error:", <<"VersionError">>, t))

\* the attempt record and the response of a successful login
LoginLogSuccess(U, L, p, t) ==
    Out(U, Logged(L, p, "", TRUE, "success", p.risk.score, t),
        Finish(AfterLog(p), "Success", 200, t))

LoginStep(U, L, p, t) ==
    CASE p.pc = "find" -> LoginFind(U, L, p, t)
      [] p.pc = "logLocked" -> LoginLogLocked(U, L, p, t)
      [] p.pc = "score" -> LoginScore(U, L, p, t)
      [] p.pc = "logBlocked" -> LoginLogBlocked(U, L, p, t)
      [] p.pc = "saveFailed" -> LoginSaveFailed(U, L, p, t)
      [] p.pc = "logWrong" -> LoginLogWrong(U, L, p, t)
      [] p.pc = "saveReset" -> LoginSaveReset(U, L, p, t)
      [] p.pc = "saveDevice" -> LoginSaveDevice(U, L, p, t)
      [] p.pc = "logSuccess" -> LoginLogSuccess(U, L, p, t)

----------------------------------------------------------------------------
(* POST /register, step by step *)

\* the initial binding left at the schema default, trusted: false
InitialDevices_Untrusted(fp, userAgent, t) ==
    IF fp # "" THEN <<[NewDevice(fp, userAgent, t) EXCEPT !.trusted = FALSE]>> ELSE <<>>

\* devices: fingerprint ? [{fingerprint, userAgent, trusted: true}] : []
InitialDevices(fp, userAgent, t) ==
    IF fp # "" THEN <<NewDevice(fp, userAgent, t)>> ELSE <<>>

\* the register that looks the phone up and goes on whatever it finds
RegisterFind_IgnoresExisting(U, L, p, t) ==
    LET ph == Sanitize(p.req.phone)
        q == [p EXCEPT !.phone = ph, !.pre = FindOne(U, ph)]
        dec == rsaDecrypt(p.req.enc)
    IN  IF p.req.phone = <<>> \/ p.req.enc.kind = "missing"
        THEN Out(U, L, Finish(p, "InvalidInput", 400, t))
        ELSE IF ~dec.ok
        THEN Out(U, L, Finish(q, "InvalidCiphertext", 400, t))
        ELSE IF ~PinFormatOk(dec.value)
        THEN Out(U, L, Finish(q, "InvalidPinFormat", 400, t))
        ELSE Out(U, L,
                 [q EXCEPT !.doc = Loaded(NewUser(0, ph,
                                       sha512Hash(dec.value, p.req.salt),
                                       p.req.salt,
                                       InitialDevices(p.req.fingerprint,
                                                      p.req.userAgent, t),
                                       t)),
                           !.pc = "create"])

\* input validation, User.findOne, rsaDecrypt, the MPIN format, salt and
\* hash, and the document handed to User.create
RegisterFind(U, L, p, t) ==
    IF p.req.phone = <<>> \/ p.req.enc.kind = "missing"
    THEN Out(U, L, Finish(p, "InvalidInput", 400, t))
    ELSE LET ph == Sanitize(p.req.phone)
             found == FindOne(U, ph)
             dec == rsaDecrypt(p.req.enc)
             q == [p EXCEPT !.phone = ph, !.pre = found]
             r == AfterDecrypt([q EXCEPT !.calls = <<"decrypt">>], dec)
         IN  IF found # <<>>
             THEN Out(U, L, Finish(q, "AlreadyRegistered", 409, t))
             ELSE IF ~dec.ok
             THEN Out(U, L, Finish(r, "InvalidCiphertext", 400, t))
             ELSE IF ~PinFormatOk(dec.value)
             THEN Out(U, L, Finish(r, "InvalidPinFormat", 400, t))
             ELSE Out(U, L,
                      [r EXCEPT !.calls = <<"decrypt", "hash">>,
                                !.doc = Loaded(NewUser(0, ph,
                                            sha512Hash(dec.value, p.req.salt),
                                            p.req.salt,
                                            InitialDevices(p.req.fingerprint,
                                                           p.req.userAgent, t),
                                            t)),
                                !.pc = "create"])

\* User.create: schema validation, the unique index on phone, the insert;
\* then the token.  A rejected create throws into the handler's catch
RegisterCreate(U, L, p, t) ==
    IF ~PhoneValid(p.phone) \/ p.phone \in DOMAIN U
    THEN Out(U, L, Caught(p, "Registration error:", p.phone, t))
    ELSE LET id == Cardinality(DOMAIN U) + 1
             rec == [p.doc.rec EXCEPT !.id = id]
         IN  Out([x \in DOMAIN U \cup {p.phone} |-> IF x = p.phone THEN rec ELSE U[x]],
                 L,
                 [p EXCEPT !.doc = Loaded(rec),
                           !.token = <<generateToken(id, p.phone, t)>>,
                           !.pc = "logRegistered"])

\* the attempt record and the response of a registration
RegisterLog(U, L, p, t) ==
    Out(U, Logged(L, p, p.req.userAgent, TRUE, "success", 0, t),
        Finish(AfterLog(p), "Registered", 201, t))

RegisterStep(U, L, p, t) ==
    CASE p.pc = "find" -> RegisterFind(U, L, p, t)
      [] p.pc = "create" -> RegisterCreate(U, L, p, t)
      [] p.pc = "logRegistered" -> RegisterLog(U, L, p, t)

----------------------------------------------------------------------------
(* POST /verify-otp *)

VerifyOtpStep(U, L, p, t) ==
    LET ph == Sanitize(p.req.phone)
        q == [p EXCEPT !.phone = ph]
    IN  IF p.req.phone = <<>>
        THEN Out(U, L, Finish(p, "InvalidInput", 400, t))
        ELSE IF Len(ph) < MinPhoneDigits \/ Len(ph) > MaxPhoneDigits
        THEN Out(U, L, Finish(q, "InvalidInput", 400, t))
        ELSE IF ~p.req.otpProof
        THEN Out(U, L, Finish(q, "InvalidInput", 400, t))
        ELSE Out(U, L, Finish([q EXCEPT !.pre = FindOne(U, ph),
                                        !.isNewUser = (FindOne(U, ph) = <<>>)],
                              "OtpVerified", 200, t))

----------------------------------------------------------------------------
(* Handlers as a whole *)

\* one step of the handler of a request
\* a handler resumed at t runs to its next await, or to its response: the
\* operation it then awaits was called at t
Step(U, L, p, t) ==
    LET o == CASE p.op = "login" -> LoginStep(U, L, p, t)
               [] p.op = "register" -> RegisterStep(U, L, p, t)
               [] p.op = "verify-otp" -> VerifyOtpStep(U, L, p, t)
    IN  [o EXCEPT !.p.issued = t, !.p.steps = Append(@, t)]

\* a handler run from where it stands to its response, nothing interleaved
RECURSIVE Run(_, _, _, _)
Run(U, L, p, t) ==
    IF p.pc = "done" THEN Out(U, L, p)
    ELSE LET o == Step(U, L, p, t) IN Run(o.users, o.ledger, o.p, t)

\* what has been observed of an identity's responses:
\*   start, len   the current run of consecutive wrong-credential verdicts:
\*                the failure counter it began at, and its length
\*   needOtp      a login was risk-blocked and no verify-otp followed yet
NoObs == [start |-> 0, len |-> 0, needOtp |-> FALSE]

ObsOf(o, ph) == IF ph \in DOMAIN o THEN o[ph] ELSE NoObs

Observed(o, ph, rec) ==
    [x \in DOMAIN o \cup {ph} |-> IF x = ph THEN rec ELSE o[x]]

Observe(o, r) ==
    LET old == ObsOf(o, r.phone)
    IN  CASE r.op = "login" /\ r.verdict = "WrongCredential" ->
               Observed(o, r.phone,
                   IF old.len = 0
                   THEN [old EXCEPT !.start = r.pre[1].failedAttempts, !.len = 1]
                   ELSE [old EXCEPT !.len = Min(@ + 1, MaxRun)])
          [] r.op = "login" /\ r.verdict = "RiskBlocked" ->
               Observed(o, r.phone, [old EXCEPT !.len = 0, !.needOtp = TRUE])
          [] r.op = "login" /\ r.verdict \in {"Success", "AccountLocked",
                                             "InvalidCiphertext", "ServerError"} ->
               Observed(o, r.phone, [old EXCEPT !.len = 0])
          [] r.op = "register" /\ r.verdict = "Registered" ->
               Observed(o, r.phone, NoObs)
          [] r.op = "verify-otp" /\ r.verdict = "OtpVerified" /\ ~r.isNewUser ->
               Observed(o, r.phone, [old EXCEPT !.needOtp = FALSE])
          [] OTHER -> o

----------------------------------------------------------------------------
(* The requests the model sends *)

PhoneA == <<"9", "8", "7", "6", "5", "4", "3", "2", "1", "0">>
PhoneAFormatted == <<"+", "9", "8", "7", "6", "5", "-", "4", "3", "2", "1", "0">>
PhoneShort == <<"9", "8", "7", "6", "5", "4", "3", "2", "1">>

PinA == <<"1", "2", "3", "4">>
PinB == <<"4", "3", "2", "1">>
PinFive == <<"1", "2", "3", "4", "5">>

SaltA == <<"a", "f">>

Enc(pin) == [kind |-> "oaep", plain |-> pin]
Garbled == [kind |-> "bad_padding", plain |-> <<>>]
\* a ciphertext that is not base64 of a block of the key's size
Truncated == [kind |-> "bad_base64", plain |-> <<>>]
\* a ciphertext made with another public key
WrongKey == [kind |-> "wrong_key", plain |-> <<>>]

\* where a request comes from: ip, fingerprint
Home == [ip |-> "ipA", fingerprint |-> "fpA"]
Away == [ip |-> "ipB", fingerprint |-> "fpB"]

RegisterFrom(ph, enc, from) ==
    Request(ph, enc, from.fingerprint, from.ip, "UA", FALSE, TRUE, TRUE, SaltA)

RegisterRequests ==
    {RegisterFrom(PhoneA, Enc(PinA), Home),
     RegisterFrom(PhoneAFormatted, Enc(PinA), Home)}

LoginFrom(ph, enc, from) ==
    Request(ph, enc, from.fingerprint, from.ip, "UA", FALSE, TRUE, TRUE, <<>>)

LoginRequests ==
    {LoginFrom(PhoneA, Enc(PinA), Home),
     LoginFrom(PhoneA, Enc(PinB), Home),
     LoginFrom(PhoneA, Enc(PinB), Away),
     LoginFrom(PhoneA, Garbled, Home)}

OtpRequests == {Request(PhoneA, NoEnc, "", "ipA", "UA", TRUE, TRUE, TRUE, <<>>)}

\* the clock advances in these steps
TickSteps == {30}

----------------------------------------------------------------------------
(* The server handling requests: a request arrives, its handler runs from one
   await to the next while the handlers of other requests run and the clock
   moves, and it answers *)

Init ==
    /\ users = <<>>
    /\ ledger = <<>>
    /\ now = 0
    /\ resp = Idle
    /\ procs = [i \in 1..MaxProcs |-> Idle]
    /\ obs = <<>>
    /\ server = Boot(Installed)

InFlight(i) == procs[i].pc \notin {"idle", "done"}

NoneInFlight == \A i \in 1..MaxProcs : ~InFlight(i)

NumInFlight == Cardinality({i \in 1..MaxProcs : InFlight(i)})

\* a request arrives: it takes the first slot that holds no request in flight
Arrive(i, op, req) ==
    /\ server.up
    /\ ~InFlight(i)
    /\ \A j \in 1..(i - 1) : InFlight(j)
    /\ procs' = [procs EXCEPT ![i] = NewProc(op, "find", req)]
    /\ UNCHANGED <<users, ledger, now, resp, obs, server>>

\* the awaited operation of a request completes and its handler runs to the
\* next await, or to its response; the store answers the query of the risk
\* scorer in one of the orders it is free to choose
Proceed ==
    \E i \in 1..MaxProcs :
        /\ server.up
        /\ InFlight(i)
        /\ \E first \in TieOrders(ledger, procs[i].phone, procs[i].issued) :
           \E o \in {Step(users, ledger, [procs[i] EXCEPT !.ties = first], now)} :
               /\ users' = o.users
               /\ ledger' = o.ledger
               /\ procs' = [procs EXCEPT ![i] = o.p]
               /\ resp' = IF o.p.pc = "done" THEN o.p ELSE resp
               /\ obs' = IF o.p.pc = "done" THEN Observe(obs, o.p) ELSE obs
               /\ UNCHANGED <<now, server>>

\* the clock moves, whatever the handlers await
Tick ==
    \E d \in TickSteps :
        /\ now + d <= MaxNow
        /\ now' = now + d
        /\ UNCHANGED <<users, ledger, resp, procs, obs, server>>

ConcRegisterRequests == {RegisterFrom(PhoneA, Enc(PinA), Home)}

ConcLoginRequests ==
    {LoginFrom(PhoneA, Enc(PinA), Home), LoginFrom(PhoneA, Enc(PinB), Home)}

ArriveRegister ==
    /\ Len(ledger) + NumInFlight < MaxConcLedger
    /\ \E i \in 1..MaxProcs : \E req \in ConcRegisterRequests : Arrive(i, "register", req)

ArriveLogin ==
    /\ Len(ledger) + NumInFlight < MaxConcLedger
    /\ \E i \in 1..MaxProcs : \E req \in ConcLoginRequests : Arrive(i, "login", req)

ArriveOtp ==
    /\ Len(ledger) + NumInFlight < MaxConcLedger
    /\ \E i \in 1..MaxProcs : \E req \in OtpRequests : Arrive(i, "verify-otp", req)

Next == ArriveRegister \/ ArriveLogin \/ ArriveOtp \/ Proceed \/ Tick

Spec == Init /\ [][Next]_vars

----------------------------------------------------------------------------
(* A client that sends its requests one after the other: the next request
   when the last is answered.  resp is the answer the client holds *)

Send(op, req) ==
    /\ server.up
    /\ NoneInFlight
    /\ procs' = [procs EXCEPT ![1] = NewProc(op, "find", req)]
    /\ resp' = Idle
    /\ UNCHANGED <<users, ledger, now, obs, server>>

Register ==
    /\ Len(ledger) < MaxLedger
    /\ \E req \in RegisterRequests : Send("register", req)

Login ==
    /\ Len(ledger) < MaxLedger
    /\ \E req \in LoginRequests : Send("login", req)

VerifyOtp == \E req \in OtpRequests : Send("verify-otp", req)

NextTurns == Register \/ Login \/ VerifyOtp \/ Proceed \/ Tick

SpecTurns == Init /\ [][NextTurns]_vars

----------------------------------------------------------------------------
(* The risk scorer and the ledger called on their own *)

PhoneB == <<"9", "1", "2", "3", "4", "5", "6", "7", "8", "0">>

\* the minutes at which the clock is read: 5 minutes apart, either side of the
\* hours 2 and 5
ScoreClock == {0, 115, 120, 355, 360}

\* the attempts logged: a success from Home, a wrong MPIN from Away
ScoreRecords ==
    {[from |-> Home, success |-> TRUE, reason |-> "success"],
     [from |-> Away, success |-> FALSE, reason |-> "wrong_mpin"]}

ScoreCall(ph, ip, fingerprint, readOk) ==
    Request(ph, NoEnc, fingerprint, ip, "", FALSE, readOk, TRUE, <<>>)

\* the calls of calculateRiskScore: the identity with a history from each
\* pairing of ip and fingerprint, another identity, and a ledger that cannot
\* be read
ScoreRequests ==
    {ScoreCall(PhoneA, "ipA", "fpA", TRUE), ScoreCall(PhoneA, "ipA", "fpB", TRUE),
     ScoreCall(PhoneA, "ipB", "fpA", TRUE), ScoreCall(PhoneA, "ipB", "fpB", TRUE),
     ScoreCall(PhoneB, "ipA", "fpA", TRUE), ScoreCall(PhoneA, "ipB", "fpB", FALSE)}

AllIdle == [i \in 1..MaxProcs |-> Idle]

\* the data of an attempt of the identity logged from an origin
ScoreAttempt(r) ==
    [phone |-> PhoneA, ip |-> r.from.ip, fingerprint |-> r.from.fingerprint,
     userAgent |-> "", success |-> r.success, reason |-> r.reason, riskScore |-> 0]

\* calculateRiskScore called at t: the bound of the query is taken from the
\* clock and LoginAttempt.find is awaited
ScoreCalledAt(req, t) ==
    [NewProc("score", "find", req) EXCEPT !.phone = req.phone, !.issued = t]

\* the find of the call p answers at t with the attempts of ledger L, and the
\* rest of calculateRiskScore runs: the clock is read again for the rapid
\* attempts and for the hour
ScoreAnsweredAt(L, p, t, first) ==
    [Finish(AfterScore(p), "Scored", 200, t)
        EXCEPT !.ties = first, !.steps = <<t>>,
               !.risk = calculateRiskScore(L, p.phone, p.req.ip, p.req.fingerprint,
                                           p.issued, t, p.req.readOk, first)]

\* logLoginAttempt called at t: the record is built and dated, and
\* LoginAttempt.create is awaited
LogCalledAt(data, t) ==
    [NewProc("log", "insert", NoRequest)
        EXCEPT !.phone = data.phone, !.issued = t, !.out = data]

\* the calls of op that await the store
Awaiting(op) == {i \in 1..MaxProcs : procs[i].op = op /\ InFlight(i)}

\* a call is made: it takes the first slot that holds no call in flight
Called(p) ==
    \E i \in 1..MaxProcs :
        /\ ~InFlight(i)
        /\ \A j \in 1..(i - 1) : InFlight(j)
        /\ procs' = [procs EXCEPT ![i] = p]

\* logLoginAttempt is called for the identity; while a call of the scorer is
\* in flight one insert is awaited at a time
LogCalled ==
    /\ Len(ledger) + Cardinality(Awaiting("log")) < MaxHistory
    /\ Awaiting("score") # {} => Awaiting("log") = {}
    /\ \E r \in ScoreRecords : Called(LogCalledAt(ScoreAttempt(r), now))
    /\ resp' = Idle
    /\ UNCHANGED <<users, ledger, now, obs, server>>

\* the insert of a call of logLoginAttempt completes, whatever the order of
\* the calls
LogInserted ==
    \E i \in Awaiting("log") :
        /\ ledger' = logLoginAttempt(ledger, procs[i].out, procs[i].issued, TRUE)
        /\ procs' = [procs EXCEPT ![i] = Idle]
        /\ resp' = Idle
        /\ UNCHANGED <<users, now, obs, server>>

\* calculateRiskScore is called, beside one insert awaited at most
ScoreCalled ==
    /\ Awaiting("score") = {}
    /\ \A i, j \in Awaiting("log") : i = j
    /\ \E req \in ScoreRequests : Called(ScoreCalledAt(req, now))
    /\ resp' = Idle
    /\ UNCHANGED <<users, ledger, now, obs, server>>

\* the find of a call of calculateRiskScore answers and the call returns
ScoreAnswered ==
    \E i \in Awaiting("score") :
    \E first \in TieOrders(ledger, procs[i].phone, procs[i].issued) :
        /\ resp' = ScoreAnsweredAt(ledger, procs[i], now, first)
        /\ procs' = [procs EXCEPT ![i] = Idle]
        /\ UNCHANGED <<users, ledger, now, obs, server>>

\* the clock is next read at the next minute of ScoreClock; a call in flight
\* is answered before the clock is read at the minute after that, and of the
\* calls made in one minute one at most is still in flight at the next
Advance ==
    /\ \E t \in ScoreClock : t > now
    /\ \A i \in 1..MaxProcs : InFlight(i) => procs[i].issued = now
    /\ \A i, j \in 1..MaxProcs : (InFlight(i) /\ InFlight(j)) => i = j
    /\ now' = CHOOSE t \in ScoreClock : t > now /\ \A u \in ScoreClock : u > now => t <= u
    /\ resp' = Idle
    /\ UNCHANGED <<users, ledger, procs, obs, server>>

NextScore == LogCalled \/ LogInserted \/ ScoreCalled \/ ScoreAnswered \/ Advance

SpecScore == Init /\ [][NextScore]_vars

----------------------------------------------------------------------------
(* Requests at the edges of the input, and a ledger that fails *)

PhoneLong == <<"9", "8", "7", "6", "5", "4", "3", "2", "1", "0",
               "1", "2", "3", "4", "5", "6">>

PinSix == <<"1", "2", "3", "4", "5", "6">>
PinTrailing == <<"1", "2", "3", "4", " ">>

\* a request whose ledger read (write) fails
ReadFails(req) == [req EXCEPT !.readOk = FALSE]

WriteFails(req) == [req EXCEPT !.writeOk = FALSE]

\* a request that sends no fingerprint
NoFingerprint(req) == [req EXCEPT !.fingerprint = ""]

EdgeRegisterRequests ==
    {RegisterFrom(PhoneA, Enc(PinA), Home),
     WriteFails(RegisterFrom(PhoneA, Enc(PinA), Home)),
     NoFingerprint(RegisterFrom(PhoneA, Enc(PinSix), Home)),
     RegisterFrom(PhoneA, Enc(PinFive), Home),
     RegisterFrom(PhoneA, Enc(PinTrailing), Home),
     RegisterFrom(PhoneA, Garbled, Home),
     RegisterFrom(PhoneShort, Enc(PinA), Home),
     RegisterFrom(PhoneLong, Enc(PinA), Home)}

EdgeLoginRequests ==
    {LoginFrom(PhoneA, Enc(PinA), Home),
     ReadFails(LoginFrom(PhoneA, Enc(PinA), Away)),
     LoginFrom(PhoneA, Enc(PinB), Away),
     WriteFails(LoginFrom(PhoneA, Enc(PinB), Away)),
     ReadFails(LoginFrom(PhoneA, Garbled, Home)),
     LoginFrom(PhoneLong, Enc(PinA), Home)}

EdgeRegister ==
    /\ Len(ledger) < MaxEdgeLedger
    /\ \E req \in EdgeRegisterRequests : Send("register", req)

EdgeLogin ==
    /\ Len(ledger) < MaxEdgeLedger
    /\ \E req \in EdgeLoginRequests : Send("login", req)

NextEdge == EdgeRegister \/ EdgeLogin \/ Proceed

SpecEdge == Init /\ [][NextEdge]_vars

----------------------------------------------------------------------------
(* Reading a response *)

\* the last response answers a login (register) that found the identity
LoginOf(ph) == resp.op = "login" /\ resp.pc = "done" /\ resp.phone = ph /\ Has(resp.pre)

RegisterOf(ph) == resp.op = "register" /\ resp.pc = "done" /\ resp.phone = ph

\* the identity as the handler loaded it
Before == resp.pre[1]

\* when the handler of the last response had the identity loaded and checked
\* the lock
CheckedAt == resp.steps[1]

\* when it had the answer of the risk scorer: the time of the decryption, of
\* the verification and of the lockout method
VerifiedAt == resp.steps[2]

\* when it called logLoginAttempt, its last await: the time of the token too
LoggedAt == resp.steps[Len(resp.steps) - 1]

\* the current run of consecutive wrong-credential verdicts of an identity
RunOf(ph) == ObsOf(obs, ph)

\* the fixed order of the gates of a login
GateOrder == <<"lock", "score", "decrypt", "verify">>

IsPrefix(s, r) == Len(s) <= Len(r) /\ s = SubSeq(r, 1, Len(s))

----------------------------------------------------------------------------
(* Lockout *)

\* C1 as claimed: whenever five wrong-credential logins in a row have been
\* answered, whatever the failure counter was when the run began, the identity
\* is locked until the time of the fifth plus 30 minutes; and a login of a
\* locked identity is answered AccountLocked without verifyMpin.
C1_FiveFailuresFromAnyCount ==
    \A ph \in DOMAIN users :
        /\ (LoginOf(ph) /\ resp.verdict = "WrongCredential" /\ RunOf(ph).len = 5)
              => users[ph].lockedUntil = VerifiedAt + LockMinutes
        /\ (LoginOf(ph) /\ isLocked(Before, CheckedAt))
              => resp.verdict = "AccountLocked" /\ "verify" \notin Range(resp.calls)

\* C1 amended: the wrong-credential login that brings the failure counter the
\* run began at, plus the length of the run, to five locks the identity until
\* the time of that failure plus 30 minutes, with the counter back at 0 (the
\* fifth failure of a run begun at 0); and a login of a locked identity is
\* answered AccountLocked without verifyMpin and changes nothing.
C1_LockOnFifthFailure ==
    \A ph \in DOMAIN users :
        /\ (LoginOf(ph) /\ resp.verdict = "WrongCredential"
                /\ RunOf(ph).start + RunOf(ph).len = MaxFailedAttempts)
              => /\ users[ph].lockedUntil = VerifiedAt + LockMinutes
                 /\ users[ph].failedAttempts = 0
                 /\ isLocked(users[ph], VerifiedAt)
        /\ (LoginOf(ph) /\ resp.verdict = "WrongCredential"
                /\ RunOf(ph).start + RunOf(ph).len < MaxFailedAttempts)
              => /\ users[ph].failedAttempts = RunOf(ph).start + RunOf(ph).len
                 /\ users[ph].lockedUntil = Before.lockedUntil
        /\ (LoginOf(ph) /\ isLocked(Before, CheckedAt))
              => /\ resp.verdict = "AccountLocked"
                 /\ "verify" \notin Range(resp.calls)
                 /\ users[ph] = Before

\* a sixth attempt, made before the lock of the fifth failure of a run begun
\* at 0 expires, has been answered AccountLocked
C1_Witness ==
    /\ LoginOf(PhoneA)
    /\ resp.verdict = "AccountLocked"
    /\ resp.at < Before.lockedUntil
    /\ Before.lockedUntil = CheckedAt + LockMinutes
    /\ Len(SelectSeq(ledger, LAMBDA a : a.reason = "wrong_mpin")) = MaxFailedAttempts

\* C2 as claimed: a wrong-credential response carries attemptsRemaining = 5
\* minus the failure counter after the failure, and 0 when that failure set
\* the lock.
C2_AttemptsRemaining ==
    \A ph \in DOMAIN users :
        (LoginOf(ph) /\ resp.verdict = "WrongCredential")
           => /\ resp.remaining = MaxFailedAttempts - users[ph].failedAttempts
              /\ (users[ph].lockedUntil # Before.lockedUntil => resp.remaining = 0)

\* C4 as claimed: every login of a registered identity, whatever its verdict,
\* has made exactly one call of logLoginAttempt by the time it answers.
C4_OneRecordPerLogin ==
    \A ph \in DOMAIN users : LoginOf(ph) => resp.logs = 1

\* C5 as claimed: once a login of an identity was risk-blocked, no login of it
\* ends in a session before a verify-otp for it has succeeded.
C5_NoSessionBeforeReverify ==
    \A ph \in DOMAIN users :
        (LoginOf(ph) /\ resp.verdict = "Success") => ~RunOf(ph).needOtp

\* a login has been risk-blocked and answered with requireOtpReverify
C5_Witness ==
    /\ LoginOf(PhoneA)
    /\ resp.verdict = "RiskBlocked"
    /\ resp.risk.score > 60
    /\ resp.reverify
    /\ RunOf(PhoneA).needOtp

\* C6: a login whose credential verifies leaves the identity with failure
\* counter 0 and no lock expiry, whatever the counter was.
C6_SuccessResets ==
    \A ph \in DOMAIN users :
        (LoginOf(ph) /\ "verify" \in Range(resp.calls)
            /\ verifyMpin(resp.req.enc.plain, Before.mpinHash, Before.mpinSalt))
           => /\ resp.verdict = "Success"
              /\ users[ph].failedAttempts = 0
              /\ users[ph].lockedUntil = NoDate

\* a login has succeeded at failure counter 4
C6_Witness ==
    /\ LoginOf(PhoneA)
    /\ resp.verdict = "Success"
    /\ Before.failedAttempts = MaxFailedAttempts - 1
    /\ users[PhoneA].failedAttempts = 0

\* C7: the gates of a login run in the order lock check, risk scoring,
\* decryption, verification; a locked attempt runs the lock check only, and a
\* risk-blocked one the lock check and the scoring only.
C7_GateOrder ==
    \A ph \in DOMAIN users :
        LoginOf(ph) =>
            /\ IsPrefix(resp.calls, GateOrder)
            /\ Len(resp.calls) >= 1
            /\ resp.verdict = "AccountLocked" => resp.calls = <<"lock">>
            /\ resp.verdict = "RiskBlocked" => resp.calls = <<"lock", "score">>
            /\ resp.verdict \in {"WrongCredential", "Success"} => resp.calls = GateOrder

\* a login with a wrong MPIN has been risk-blocked before its decryption
C7_Witness ==
    /\ LoginOf(PhoneA)
    /\ resp.verdict = "RiskBlocked"
    /\ resp.calls = <<"lock", "score">>
    /\ resp.req.enc = Enc(PinB)

\* C8: the stored failure counter is always in 0..4; the failure at counter 4
\* stores counter 0 and lockedUntil = now + 30 minutes together, and any other
\* failure stores the counter plus one and leaves lockedUntil alone.
C8_CounterRange ==
    \A ph \in DOMAIN users :
        /\ users[ph].failedAttempts \in 0..(MaxFailedAttempts - 1)
        /\ (LoginOf(ph) /\ resp.verdict = "WrongCredential") =>
              IF Before.failedAttempts = MaxFailedAttempts - 1
              THEN /\ users[ph].failedAttempts = 0
                   /\ users[ph].lockedUntil = VerifiedAt + LockMinutes
              ELSE /\ users[ph].failedAttempts = Before.failedAttempts + 1
                   /\ users[ph].lockedUntil = Before.lockedUntil

\* the failure at counter 4 has been answered
C8_Witness ==
    /\ LoginOf(PhoneA)
    /\ resp.verdict = "WrongCredential"
    /\ Before.failedAttempts = MaxFailedAttempts - 1
    /\ users[PhoneA].failedAttempts = 0

\* C9: a lock that has expired (now >= lockedUntil) needs no unlock step: the
\* login passes the lock check and is scored.  The counter of a locked identity
\* is 0, so the identity comes out of its lock as Unlocked(0): a failure after
\* the expiry locks again only from counter 4, the fifth in a row, and any
\* earlier one stores the counter plus one, answers 5 minus that, and leaves
\* the identity unlocked.
C9_LockExpires ==
    \A ph \in DOMAIN users :
        /\ isLocked(users[ph], now) => users[ph].failedAttempts = 0
        /\ (LoginOf(ph) /\ Before.lockedUntil # NoDate /\ CheckedAt >= Before.lockedUntil)
              => /\ resp.verdict # "AccountLocked"
                 /\ "score" \in Range(resp.calls)
                 /\ resp.verdict = "WrongCredential" =>
                       /\ isLocked(users[ph], VerifiedAt)
                             = (Before.failedAttempts = MaxFailedAttempts - 1)
                       /\ Before.failedAttempts < MaxFailedAttempts - 1 =>
                             /\ users[ph].failedAttempts = Before.failedAttempts + 1
                             /\ resp.remaining = MaxFailedAttempts - users[ph].failedAttempts

\* the first failure after a lock, at the minute the lock expires
C9_Witness ==
    /\ LoginOf(PhoneA)
    /\ resp.verdict = "WrongCredential"
    /\ Before.lockedUntil = CheckedAt
    /\ Before.failedAttempts = 0
    /\ users[PhoneA].failedAttempts = 1

\* C10: a register of a phone that has an identity record is answered
\* AlreadyRegistered, changes nothing of the record, issues no session and
\* writes no attempt record.
C10_AlreadyRegistered ==
    \A ph \in DOMAIN users :
        (RegisterOf(ph) /\ Has(resp.pre)) =>
            /\ resp.verdict = "AlreadyRegistered"
            /\ resp.status = 409
            /\ users[ph] = Before
            /\ resp.token = <<>>
            /\ resp.logs = 0

\* a phone written with punctuation has been refused as already registered,
\* its record carrying failures and a lock
C10_Witness ==
    /\ RegisterOf(PhoneA)
    /\ resp.verdict = "AlreadyRegistered"
    /\ resp.req.phone = PhoneAFormatted
    /\ users[PhoneA].lockedUntil # NoDate
    /\ Len(users[PhoneA].devices) = 1

----------------------------------------------------------------------------
(* Concurrent logins *)

\* the attempt records of an identity
AttemptsOf(ph) == SelectSeq(ledger, LAMBDA a : a.phone = ph)

\* C3 as claimed: wrong-credential logins of one identity count as if they
\* were served one after the other.  When no request is in flight and the
\* identity's ledger holds its registration followed by k <= 5 wrong_mpin
\* records and nothing else, the identity is in the state k failures in
\* sequence lead to from Unlocked(0): counter k and no lock for k < 5, counter
\* 0 and a lock for k = 5.
C3_FailuresSerialized ==
    \A ph \in DOMAIN users :
        LET mine == AttemptsOf(ph)
            k == Len(SelectSeq(mine, LAMBDA a : a.reason = "wrong_mpin"))
        IN  (/\ NoneInFlight
             /\ Len(mine) = k + 1
             /\ mine[1].reason = "success"
             /\ k <= MaxFailedAttempts)
            => IF k < MaxFailedAttempts
               THEN users[ph].failedAttempts = k /\ users[ph].lockedUntil = NoDate
               ELSE users[ph].failedAttempts = 0 /\ users[ph].lockedUntil # NoDate

----------------------------------------------------------------------------
(* The risk scorer *)

\* the points the scorer adds with a flag
FlagPoints(flag) ==
    CASE flag = "first_login" -> 5
      [] flag = "new_ip" -> 20
      [] flag = "new_device" -> 25
      [] flag = "rapid_attempts" -> 30
      [] flag = "high_failure_rate" -> 15
      [] flag = "unusual_hour" -> 10
      [] flag = "detection_error" -> 10

RECURSIVE SumPoints(_)
SumPoints(flags) ==
    IF flags = <<>> THEN 0 ELSE FlagPoints(Head(flags)) + SumPoints(Tail(flags))

\* the last response is an assessment of calculateRiskScore
Scored == resp.op = "score" /\ resp.pc = "done"

\* C11: the score returned is the sum of the points of the flags returned (no
\* flag twice), clamped to 0..100, and the action is allow iff score <= 30,
\* warn iff 30 < score <= 60, block iff score > 60.
C11_ScoreAndAction ==
    Scored =>
        LET r == resp.risk
        IN  /\ r.score = Min(SumPoints(r.flags), 100)
            /\ r.score \in 0..100
            /\ Cardinality(Range(r.flags)) = Len(r.flags)
            /\ (r.action = "allow") = (r.score <= 30)
            /\ (r.action = "warn") = (r.score > 30 /\ r.score <= 60)
            /\ (r.action = "block") = (r.score > 60)

\* every rule but first_login has fired: the score is 100 and the action block
C11_Witness ==
    /\ Scored
    /\ resp.risk.score = 100
    /\ Len(resp.risk.flags) = 5
    /\ resp.risk.action = "block"

\* C19: a second call of the scorer with the same identity, ip and
\* fingerprint, made and answered in the minute in which the first was made
\* and answered, the ledger being the same, returns the score, the flags and
\* the action of the first.
C19_Deterministic ==
    (Scored /\ resp.phone \in DOMAIN obs) =>
        LET earlier == obs[resp.phone]
        IN  (/\ earlier.req = resp.req
             /\ earlier.issued = resp.issued
             /\ earlier.at = resp.at)
            => /\ earlier.risk.score = resp.risk.score
               /\ earlier.risk.flags = resp.risk.flags
               /\ earlier.risk.action = resp.risk.action

\* C20: on an empty history of the identity the scorer returns first_login
\* with score 5, or first_login and unusual_hour with score 15 when the hour of
\* now, the clock as the scorer reads it for the hour once its query has
\* answered, is in 2..5, no other flag, and the action allow.
C20_EmptyHistory ==
    (/\ Scored
     /\ resp.req.readOk
     /\ \A i \in 1..Len(ledger) : ledger[i].phone # resp.req.phone)
    => LET hour == (resp.at \div 60) % 24
       IN  /\ resp.risk.action = "allow"
           /\ IF hour \in 2..5
              THEN resp.risk.score = 15
                   /\ resp.risk.flags = <<"first_login", "unusual_hour">>
              ELSE resp.risk.score = 5 /\ resp.risk.flags = <<"first_login">>

\* an identity without history has been scored by a call made in hour 1 and
\* answered in hour 2, the ledger holding the attempts of another identity
C20_Witness ==
    /\ Scored
    /\ resp.req.phone = PhoneB
    /\ Len(ledger) >= 1
    /\ resp.issued = 115
    /\ resp.at = 120
    /\ resp.risk.score = 15

----------------------------------------------------------------------------
(* Failures of the ledger *)

\* the fallback of the scorer
Fallback == [score |-> 10, flags |-> <<"detection_error">>, action |-> "allow"]

\* C12: when the ledger cannot be read the scorer returns score 10, flags
\* {detection_error}, action allow, whatever the history holds, and the login
\* goes on to the decryption and, the ciphertext decrypting, to the
\* verification: it is answered by the MPIN alone.
C12_ReadFailureFallback ==
    \A ph \in DOMAIN users :
        (LoginOf(ph) /\ ~resp.req.readOk /\ "score" \in Range(resp.calls))
        => /\ resp.risk = Fallback
           /\ "decrypt" \in Range(resp.calls)
           /\ IF resp.req.enc.kind # "oaep"
              THEN resp.verdict = "InvalidCiphertext"
              ELSE /\ "verify" \in Range(resp.calls)
                   /\ resp.verdict =
                         IF sha512Hash(resp.req.enc.plain, Before.mpinSalt) = Before.mpinHash
                         THEN "Success" ELSE "WrongCredential"

\* a login from an unknown ip and device, after three wrong MPINs from there,
\* has ended in a session on the fallback
C12_Witness ==
    /\ LoginOf(PhoneA)
    /\ ~resp.req.readOk
    /\ resp.verdict = "Success"
    /\ resp.risk = Fallback
    /\ Len(SelectSeq(ledger, LAMBDA a : a.reason = "wrong_mpin")) >= 2

\* every request, paired with its handler
EdgeRequests ==
    {<<"register", req>> : req \in EdgeRegisterRequests}
        \cup {<<"login", req>> : req \in EdgeLoginRequests}

\* a request handled with the ledger write succeeding (failing)
Handled(op, req, writeOk) ==
    Run(users, ledger, NewProc(op, "find", [req EXCEPT !.writeOk = writeOk]), now)

\* C13: in every state in which a request can be sent and for every request,
\* the handler run with a ledger write that fails gives the verdict, the
\* status, the session, the attemptsRemaining and the identity records of the
\* handler run with a write that succeeds; the ledger alone differs (nothing
\* is appended).
C13_WriteFailureSwallowed ==
    NoneInFlight =>
    \A r \in EdgeRequests :
        LET good == Handled(r[1], r[2], TRUE)
            bad == Handled(r[1], r[2], FALSE)
        IN  /\ bad.p.verdict = good.p.verdict
            /\ bad.p.status = good.p.status
            /\ bad.p.token = good.p.token
            /\ bad.p.remaining = good.p.remaining
            /\ bad.p.logs = good.p.logs
            /\ bad.users = good.users
            /\ bad.ledger = ledger
            /\ Len(good.ledger) = Len(ledger) + good.p.logs

\* a wrong MPIN has been counted and answered although its record was lost
C13_Witness ==
    /\ LoginOf(PhoneA)
    /\ ~resp.req.writeOk
    /\ resp.verdict = "WrongCredential"
    /\ resp.logs = 1
    /\ users[PhoneA].failedAttempts = Before.failedAttempts + 1
    /\ Len(SelectSeq(ledger, LAMBDA a : a.reason = "wrong_mpin")) = 0

----------------------------------------------------------------------------
(* Decryption failures and the attempt records *)

\* C14: a login whose ciphertext does not decrypt is answered
\* InvalidCiphertext, runs no verification, and leaves the failure counter and
\* the lock expiry (the whole identity record) as they were.
C14_GarbledNotCounted ==
    \A ph \in DOMAIN users :
        /\ (LoginOf(ph) /\ "decrypt" \in Range(resp.calls) /\ resp.req.enc.kind # "oaep")
              => resp.verdict = "InvalidCiphertext"
        /\ (LoginOf(ph) /\ resp.verdict = "InvalidCiphertext")
              => /\ "verify" \notin Range(resp.calls)
                 /\ users[ph].failedAttempts = Before.failedAttempts
                 /\ users[ph].lockedUntil = Before.lockedUntil
                 /\ users[ph] = Before

\* a garbled ciphertext has been refused at failure counter 4
C14_Witness ==
    /\ LoginOf(PhoneA)
    /\ resp.verdict = "InvalidCiphertext"
    /\ Before.failedAttempts = MaxFailedAttempts - 1
    /\ users[PhoneA].failedAttempts = MaxFailedAttempts - 1

\* the attempt record a login with this verdict writes: success, reason, score
Recorded(success, reason, riskScore) ==
    /\ resp.logs = 1
    /\ Len(ledger) >= 1
    /\ ledger[Len(ledger)] =
          [phone |-> resp.phone, ip |-> resp.req.ip,
           fingerprint |-> resp.req.fingerprint, userAgent |-> "",
           success |-> success, reason |-> reason, riskScore |-> riskScore,
           timestamp |-> LoggedAt]

\* C15: the attempt record of a login matches its verdict: AccountLocked
\* writes (false, account_locked), RiskBlocked (false, fraud_detected),
\* WrongCredential (false, wrong_mpin), a session (true, success), the last
\* three with the risk score; each of them writes its record.
C15_RecordMatchesVerdict ==
    \A ph \in DOMAIN users :
        LoginOf(ph) =>
            /\ resp.verdict = "AccountLocked" => Recorded(FALSE, "account_locked", 0)
            /\ resp.verdict = "RiskBlocked"
                  => Recorded(FALSE, "fraud_detected", resp.risk.score)
            /\ resp.verdict = "WrongCredential"
                  => Recorded(FALSE, "wrong_mpin", resp.risk.score)
            /\ resp.verdict = "Success" => Recorded(TRUE, "success", resp.risk.score)

\* a locked attempt has been recorded
C15_Witness ==
    /\ LoginOf(PhoneA)
    /\ resp.verdict = "AccountLocked"
    /\ ledger[Len(ledger)].reason = "account_locked"
    /\ ledger[Len(ledger)].timestamp = LoggedAt
    /\ resp.at > LoggedAt

----------------------------------------------------------------------------
(* Register *)

\* C16 as claimed: a register or login whose phone normalizes to fewer than 10
\* or more than 15 digits is refused as a bad request before anything is done
\* for it: no decryption, no hashing, no identity record, no attempt record.
C16_PhoneLengthRejected ==
    (/\ resp.pc = "done"
     /\ resp.op \in {"register", "login"}
     /\ resp.req.phone # <<>>
     /\ (Len(Sanitize(resp.req.phone)) < 10 \/ Len(Sanitize(resp.req.phone)) > 15))
    => /\ resp.calls = <<>>
       /\ resp.logs = 0
       /\ resp.status >= 400 /\ resp.status < 500
       /\ Sanitize(resp.req.phone) \notin DOMAIN users

\* the MPIN is exactly 4 or exactly 6 digits
StrictPin(pin) ==
    \/ Len(pin) = 4 /\ \A i \in 1..4 : pin[i] \in Digits
    \/ Len(pin) = 6 /\ \A i \in 1..6 : pin[i] \in Digits

\* the last response answers a register
Registering == resp.op = "register" /\ resp.pc = "done"

\* C17: a register answered AlreadyRegistered, InvalidCiphertext or
\* InvalidPinFormat creates or changes no identity record, issues no session
\* and writes no attempt record; a plaintext that is not exactly 4 or exactly 6
\* digits is never registered, and InvalidPinFormat answers such a plaintext
\* only.
C17_FailedRegisterNoEffect ==
    /\ (Registering /\ resp.verdict \in {"AlreadyRegistered", "InvalidCiphertext",
                                          "InvalidPinFormat"})
          => /\ resp.token = <<>>
             /\ resp.logs = 0
             /\ FindOne(users, resp.phone) = resp.pre
    /\ (Registering /\ resp.req.enc.kind = "oaep" /\ ~StrictPin(resp.req.enc.plain))
          => resp.verdict \in {"AlreadyRegistered", "InvalidPinFormat"}
    /\ (Registering /\ resp.verdict = "InvalidPinFormat")
          => resp.req.enc.kind = "oaep" /\ ~StrictPin(resp.req.enc.plain)
    /\ (Registering /\ resp.verdict = "InvalidCiphertext")
          => resp.req.enc.kind # "oaep"

\* a five-digit MPIN has been refused for a phone that has no record
C17_Witness ==
    /\ Registering
    /\ resp.verdict = "InvalidPinFormat"
    /\ resp.req.enc = Enc(PinFive)
    /\ users = <<>>

\* C18: a register that succeeds creates the identity record with failure
\* counter 0, no lock expiry, the salted digest of the MPIN, and one trusted
\* binding of the fingerprint if one was sent (none otherwise); it issues a
\* 15-minute session for the new identity and writes one successful attempt
\* record.
C18_RegisterCreates ==
    (Registering /\ resp.verdict = "Registered") =>
        /\ resp.pre = <<>>
        /\ resp.phone \in DOMAIN users
        /\ LET u == users[resp.phone]
           IN  /\ u.phone = Sanitize(resp.req.phone)
               /\ u.failedAttempts = 0
               /\ u.lockedUntil = NoDate
               /\ u.mpinHash = sha512Hash(resp.req.enc.plain, u.mpinSalt)
               /\ u.devices =
                     IF resp.req.fingerprint = "" THEN <<>>
                     ELSE <<[fingerprint |-> resp.req.fingerprint,
                             userAgent |-> resp.req.userAgent,
                             lastUsed |-> CheckedAt, trusted |-> TRUE]>>
               /\ resp.token = <<[userId |-> u.id, phone |-> u.phone,
                                   iat |-> LoggedAt * 60,
                                   exp |-> LoggedAt * 60 + 15 * 60,
                                   iss |-> "SmartBank", aud |-> "smartbank-app",
                                   key |-> server.secret,
                                   late |-> 0]>>
        /\ resp.status = 201
        /\ resp.logs = 1
        /\ resp.req.writeOk =>
              /\ Len(ledger) >= 1
              /\ ledger[Len(ledger)].phone = resp.phone
              /\ ledger[Len(ledger)].success
              /\ ledger[Len(ledger)].reason = "success"
              /\ ledger[Len(ledger)].timestamp = LoggedAt

\* a phone has been registered with a fingerprint: one trusted binding, made
\* a minute before the attempt record and the token
C18_Witness ==
    /\ Registering
    /\ resp.verdict = "Registered"
    /\ resp.req.fingerprint = "fpA"
    /\ Len(users[PhoneA].devices) = 1
    /\ users[PhoneA].devices[1].trusted
    /\ users[PhoneA].devices[1].lastUsed = CheckedAt
    /\ Len(ledger) = 1
    /\ ledger[1].timestamp = LoggedAt
    /\ CheckedAt < LoggedAt

----------------------------------------------------------------------------
(* Ciphertexts that decrypt and ciphertexts that fail, the ledger failing *)

CipherRegisterRequests ==
    {RegisterFrom(PhoneA, Enc(PinA), Home),
     WriteFails(RegisterFrom(PhoneA, Enc(PinA), Home)),
     RegisterFrom(PhoneA, Enc(PinFive), Home),
     RegisterFrom(PhoneA, Truncated, Home)}

CipherLoginRequests ==
    {LoginFrom(PhoneA, Enc(PinA), Home),
     ReadFails(LoginFrom(PhoneA, Enc(PinA), Away)),
     WriteFails(LoginFrom(PhoneA, Enc(PinB), Away)),
     ReadFails(LoginFrom(PhoneA, Garbled, Home)),
     LoginFrom(PhoneA, WrongKey, Home)}

CipherRegister ==
    /\ Len(ledger) < MaxCipherLedger
    /\ \E req \in CipherRegisterRequests : Send("register", req)

CipherLogin ==
    /\ Len(ledger) < MaxCipherLedger
    /\ \E req \in CipherLoginRequests : Send("login", req)

NextCipher == CipherRegister \/ CipherLogin \/ Proceed

SpecCipher == Init /\ [][NextCipher]_vars

----------------------------------------------------------------------------
(* Device binding: logins with the right MPIN from known and new devices *)

DeviceRegisterRequests ==
    {RegisterFrom(PhoneA, Enc(PinA), Home),
     NoFingerprint(RegisterFrom(PhoneA, Enc(PinA), Home))}

DeviceLoginRequests ==
    {LoginFrom(PhoneA, Enc(PinA), Home),
     LoginFrom(PhoneA, Enc(PinA), Away),
     NoFingerprint(LoginFrom(PhoneA, Enc(PinA), Home)),
     LoginFrom(PhoneA, Enc(PinB), Away)}

DeviceRegister ==
    /\ Len(ledger) < MaxDeviceLedger
    /\ \E req \in DeviceRegisterRequests : Send("register", req)

DeviceLogin ==
    /\ Len(ledger) < MaxDeviceLedger
    /\ \E req \in DeviceLoginRequests : Send("login", req)

NextDevice == DeviceRegister \/ DeviceLogin \/ Proceed \/ Tick

SpecDevice == Init /\ [][NextDevice]_vars

----------------------------------------------------------------------------
(* The server process starting and stopping; sessions verified *)

\* process.env.JWT_SECRET: unset, or set by the operator
Environments == {<<>>, <<"configured">>}

\* nothing has run yet: no key files, empty collections
InitProc ==
    /\ \E e \in Environments : server = [Installed EXCEPT !.env = e]
    /\ users = <<>>
    /\ ledger = <<>>
    /\ now = 0
    /\ resp = Idle
    /\ procs = AllIdle
    /\ obs = <<>>

\* the process starts: config/keys.js is loaded
Start ==
    /\ ~server.up
    /\ server.drawn < MaxStarts
    /\ server' = Boot(server)
    /\ UNCHANGED <<users, ledger, now, resp, procs, obs>>

\* the process starts and dies while it writes the pair it generated
StartCrash ==
    /\ ~server.up
    /\ server.drawn < MaxStarts
    /\ ~KeyFilesExist(server)
    /\ \E at \in WriteEnds : server' = BootCrash(server, at)
    /\ UNCHANGED <<users, ledger, now, resp, procs, obs>>

\* the process ends, and with it the handlers of the requests in flight
Stop ==
    /\ server.up
    /\ server' = Halt(server)
    /\ procs' = AllIdle
    /\ UNCHANGED <<users, ledger, now, resp, obs>>

ProcRegister ==
    /\ server.up
    /\ Len(ledger) < MaxProcLedger
    /\ Send("register", RegisterFrom(PhoneA, Enc(PinA), Home))

ProcLogin ==
    /\ server.up
    /\ Len(ledger) < MaxProcLedger
    /\ Send("login", LoginFrom(PhoneA, Enc(PinA), Home))

\* POST /verify-token with the token of the last response: 401 when
\* verifyToken returns null, else the decoded claims (out.process: the start
\* of the process that answers; out.clock: Date.now() as it answers)
VerifyTokenCall ==
    /\ server.up
    /\ resp.token # <<>>
    /\ LET decoded == verifyToken(resp.token[1], now)
           p == [NewProc("verify-token", "call", NoRequest)
                    EXCEPT !.token = resp.token,
                           !.out = [decoded |-> decoded, process |-> server.drawn,
                                    clock |-> ClockMillis(now)]]
       IN  resp' = IF decoded = <<>>
                   THEN Finish(p, "InvalidToken", 401, now)
                   ELSE Finish(p, "TokenValid", 200, now)
    /\ UNCHANGED <<users, ledger, now, procs, obs, server>>

\* the parts of a second past the minute at which the clock is read
SubSeconds == {0, 900}

\* the clock advances within the second
ProcTickMillis ==
    /\ \E ms \in SubSeconds :
          /\ ms > server.ms
          /\ server' = [server EXCEPT !.ms = ms]
    /\ UNCHANGED <<users, ledger, now, resp, procs, obs>>

\* the clock advances to the next minute read
ProcTick ==
    /\ now + 5 <= MaxTokenNow
    /\ now' = now + 5
    /\ server' = [server EXCEPT !.ms = 0]
    /\ UNCHANGED <<users, ledger, resp, procs, obs>>

NextProc ==
    Start \/ StartCrash \/ Stop \/ ProcRegister \/ ProcLogin \/ Proceed
        \/ VerifyTokenCall \/ ProcTickMillis \/ ProcTick

SpecProc == InitProc /\ [][NextProc]_vars

----------------------------------------------------------------------------
(* Logins racing at the fifth failure *)

\* the stores, the last response and the observations after the identity
\* registered and then failed n logins with a wrong MPIN, one after the other
RECURSIVE AfterFailures(_)
AfterFailures(n) ==
    IF n = 0
    THEN LET o == Run(<<>>, <<>>,
                      NewProc("register", "find",
                              RegisterFrom(PhoneA, Enc(PinA), Home)), 0)
         IN  [users |-> o.users, ledger |-> o.ledger, p |-> o.p,
              obs |-> Observe(<<>>, o.p)]
    ELSE LET s == AfterFailures(n - 1)
             o == Run(s.users, s.ledger,
                      NewProc("login", "find", LoginFrom(PhoneA, Enc(PinB), Home)), 0)
         IN  [users |-> o.users, ledger |-> o.ledger, p |-> o.p,
              obs |-> Observe(s.obs, o.p)]

\* the identity is one failure away from the lock
InitRace ==
    /\ server = Boot(Installed)
    /\ users = AfterFailures(MaxFailedAttempts - 1).users
    /\ ledger = AfterFailures(MaxFailedAttempts - 1).ledger
    /\ now = 0
    /\ resp = AfterFailures(MaxFailedAttempts - 1).p
    /\ procs = AllIdle
    /\ obs = AfterFailures(MaxFailedAttempts - 1).obs

RaceLoginRequests ==
    {LoginFrom(PhoneA, Enc(PinA), Home), LoginFrom(PhoneA, Enc(PinB), Home),
     LoginFrom(PhoneA, Enc(PinA), Away)}

\* a login arrives
RaceArrive ==
    /\ Len(ledger) + NumInFlight < MaxRaceLedger
    /\ \E i \in 1..MaxProcs : \E req \in RaceLoginRequests : Arrive(i, "login", req)

NextRace == RaceArrive \/ Proceed

SpecRace == InitRace /\ [][NextRace]_vars

----------------------------------------------------------------------------
(* The credential hasher called on its own *)

\* the digits PINs are made of here
HashDigits == {"0", "1"}

\* the strings over HashDigits of length n
RECURSIVE DigitStrings(_)
DigitStrings(n) ==
    IF n = 0 THEN {<<>>}
    ELSE {Append(w, c) : w \in DigitStrings(n - 1), c \in HashDigits}

\* the PINs a registration accepts
ValidPins == DigitStrings(4) \cup DigitStrings(6)

\* the digit strings a login can carry
Probes == UNION {DigitStrings(n) : n \in MinProbeLen..MaxProbeLen}

SaltB == <<"0", "1">>

Salts == {SaltA, SaltB}

\* sha512Hash(mpin, salt) called: what was hashed and the digest
HashCall ==
    \E pin \in ValidPins : \E salt \in Salts :
        /\ resp.op = "none"
        /\ resp' = [Finish(NewProc("hash", "call", NoRequest), "Hashed", 200, now)
                       EXCEPT !.out = [mpin |-> pin, salt |-> salt, input |-> pin,
                                       hash |-> sha512Hash(pin, salt),
                                       equal |-> TRUE]]
        /\ procs' = AllIdle
        /\ UNCHANGED <<users, ledger, now, obs, server>>

\* verifyMpin(input, hash, salt) called on the digest and salt of the last
\* sha512Hash: its result
VerifyCall ==
    /\ resp.op = "hash"
    /\ \E input \in Probes :
          resp' = [Finish(NewProc("verify", "call", NoRequest), "Verified", 200, now)
                      EXCEPT !.out = [resp.out EXCEPT
                                        !.input = input,
                                        !.equal = verifyMpin(input, resp.out.hash,
                                                             resp.out.salt)]]
    /\ procs' = AllIdle
    /\ UNCHANGED <<users, ledger, now, obs, server>>

\* the caller is done with the digest and the result
Return ==
    /\ resp.op \in {"hash", "verify"}
    /\ resp' = Idle
    /\ procs' = AllIdle
    /\ UNCHANGED <<users, ledger, now, obs, server>>

NextHash == HashCall \/ VerifyCall \/ Return

SpecHash == Init /\ [][NextHash]_vars

----------------------------------------------------------------------------
(* Claims C21..C30 *)

\* the last assessment was made for PhoneA calling from ipB, on a history of
\* successful attempts that all came from ipA
ScoredAwayFromHome ==
    /\ Scored
    /\ resp.req.readOk
    /\ resp.phone = PhoneA
    /\ resp.req.ip = "ipB"
    /\ Len(ledger) >= 1
    /\ \A i \in 1..Len(ledger) : ledger[i].success /\ ledger[i].ip = "ipA"

\* the attempts recorded in the 5 minutes before the scorer read the clock for
\* them, its query answered
LastFiveMinutes ==
    LET Rapid(a) == a.timestamp >= resp.at - RapidWindow
    IN  SelectSeq(ledger, Rapid)

\* C21: on a history of successful attempts all from IP A, an attempt from IP
\* B is flagged new_ip and scores at least 20; rapid_attempts fires as well
\* exactly when more than 3 attempts were recorded in the last 5 minutes (the
\* 5 minutes before the clock read when the query has answered), and
\* so with 4 successes in the last 5 minutes the flags hold new_ip and
\* rapid_attempts, the score is at least 50 and the action is warn or block.
C21_NewIpAndRapid ==
    ScoredAwayFromHome =>
        LET r == resp.risk
            flags == Range(r.flags)
        IN  /\ "new_ip" \in flags
            /\ r.score >= 20
            /\ ("rapid_attempts" \in flags) = (Len(LastFiveMinutes) > 3)
            /\ Len(LastFiveMinutes) = 4 =>
                   /\ {"new_ip", "rapid_attempts"} \subseteq flags
                   /\ r.score >= 50
                   /\ r.action \in {"warn", "block"}

\* four successes from ipA in the last 5 minutes, the fifth attempt from ipB
\* with the known fingerprint, its query answered 5 minutes after the call
\* and after the successes: new_ip and rapid_attempts, 50 points, warn
C21_Witness ==
    /\ ScoredAwayFromHome
    /\ Len(LastFiveMinutes) = 4
    /\ resp.issued < resp.at
    /\ \A i \in 1..Len(ledger) : ledger[i].timestamp = resp.at - RapidWindow
    /\ resp.risk.flags = <<"new_ip", "rapid_attempts">>
    /\ resp.risk.score = 50
    /\ resp.risk.action = "warn"

\* the verdicts of a login that is refused
ErrorVerdicts ==
    {"InvalidInput", "NotFound", "AccountLocked", "RiskBlocked",
     "InvalidCiphertext", "WrongCredential", "ServerError"}

\* C30: a login answers with a session token only when the identity exists,
\* it was not locked at the lock check, the risk action was not block, the
\* ciphertext decrypted and verifyMpin returned true on the stored digest and
\* salt, the four gates having run in their order; the answer is then Success
\* and the token that of the identity.  Every error verdict carries no token.
C30_TokenOnlyAfterAllGates ==
    (resp.op = "login" /\ resp.pc = "done") =>
        /\ resp.token # <<>> =>
               /\ Has(resp.pre)
               /\ ~isLocked(Before, CheckedAt)
               /\ resp.calls = GateOrder
               /\ resp.risk.action \in {"allow", "warn"}
               /\ rsaDecrypt(resp.req.enc).ok
               /\ verifyMpin(rsaDecrypt(resp.req.enc).value,
                             Before.mpinHash, Before.mpinSalt)
               /\ resp.verdict = "Success" /\ resp.status = 200
               /\ resp.token = <<generateToken(Before.id, Before.phone, LoggedAt)>>
        /\ resp.verdict \in ErrorVerdicts => resp.token = <<>>
        /\ resp.verdict \in ErrorVerdicts \cup {"Success"}
        /\ resp.verdict = "Success" => resp.token # <<>>

\* a session issued after failures were counted: every gate was passed
C30_Witness ==
    /\ LoginOf(PhoneA)
    /\ resp.verdict = "Success"
    /\ resp.token # <<>>
    /\ Before.failedAttempts > 0
    /\ resp.calls = GateOrder

\* a login was answered with Success in this step
LoginSucceeds ==
    /\ resp'.op = "login" /\ resp'.pc = "done" /\ resp'.verdict = "Success"
    /\ Len(ledger') = Len(ledger) + 1

\* the bindings new keep every binding of old in its place, its fingerprint,
\* user agent and trust as they were
KeepsBindings(old, new) ==
    /\ Len(new) >= Len(old)
    /\ \A i \in 1..Len(old) :
          [new[i] EXCEPT !.lastUsed = 0] = [old[i] EXCEPT !.lastUsed = 0]

\* old after a successful login with fingerprint f at time t
BoundTo(old, f, userAgent, t) ==
    IF \E i \in 1..Len(old) : old[i].fingerprint = f
    THEN LET k == CHOOSE i \in 1..Len(old) :
                      /\ old[i].fingerprint = f
                      /\ \A j \in 1..(i - 1) : old[j].fingerprint # f
         IN  [old EXCEPT ![k].lastUsed = t]
    ELSE Append(old, [fingerprint |-> f, userAgent |-> userAgent,
                      lastUsed |-> t, trusted |-> TRUE])

\* the login in flight has passed verification and has its device binding
\* saved in this step
BindingSaved(ph) ==
    /\ procs[1].op = "login" /\ procs[1].phone = ph
    /\ procs[1].pc = "saveDevice" /\ procs'[1].pc = "logSuccess"

\* C22: no step removes a binding or an identity (the device list never
\* shrinks, its bindings keep their place); a login carrying fingerprint f
\* whose MPIN verified has its binding saved before it is answered: a
\* first-seen f adds one trusted binding used at the time of the binding, a
\* known f only has the last-used time of its binding set to that time, and
\* the login answered with Success leaves a binding for f in the list; every
\* other step of an existing identity leaves its device list as it was.
C22_DeviceBinding ==
    [][\A ph \in DOMAIN users :
          /\ ph \in DOMAIN users'
          /\ KeepsBindings(users[ph].devices, users'[ph].devices)
          /\ IF BindingSaved(ph)
             THEN users'[ph].devices =
                     BoundTo(users[ph].devices, procs[1].req.fingerprint,
                             procs[1].req.userAgent, procs[1].issued)
             ELSE users'[ph].devices = users[ph].devices
          /\ (LoginSucceeds /\ resp'.phone = ph /\ resp'.req.fingerprint # "")
                => \E i \in 1..Len(users[ph].devices) :
                      /\ users[ph].devices[i].fingerprint = resp'.req.fingerprint
                      /\ users[ph].devices[i].lastUsed = resp'.steps[3]
                      /\ users[ph].devices[i].trusted]_vars

\* the last login came from a first-seen fingerprint and added its binding
\* after the binding made at registration, which an earlier login touched
C22_Witness ==
    /\ LoginOf(PhoneA)
    /\ resp.verdict = "Success"
    /\ resp.req.fingerprint = "fpB"
    /\ DeviceIndex(Before.devices, "fpB") = 0
    /\ Len(users[PhoneA].devices) = 2
    /\ users[PhoneA].devices[1].fingerprint = "fpA"
    /\ users[PhoneA].devices[1].lastUsed > users[PhoneA].createdAt
    /\ users[PhoneA].devices[2] =
          [fingerprint |-> "fpB", userAgent |-> "UA", lastUsed |-> resp.steps[3],
           trusted |-> TRUE]

\* a request handled with its ciphertext replaced
HandledWith(op, req, enc) ==
    Run(users, ledger, NewProc(op, "find", [req EXCEPT !.enc = enc]), now)

\* a ciphertext that fails in the way k
Failing(k) == [kind |-> k, plain |-> <<>>]

\* the register and login requests of SpecCipher
CipherRequests ==
    {<<"register", req>> : req \in CipherRegisterRequests}
        \cup {<<"login", req>> : req \in CipherLoginRequests}

\* those requests, each sent with a ciphertext that fails
GarbledRequests == {<<r[1], [r[2] EXCEPT !.enc = Garbled]>> : r \in CipherRequests}

\* C26: rsaDecrypt reports the same error, and no plaintext, for every way a
\* ciphertext can fail; in every state and for every register or login
\* request, the handler's answer (verdict, status, session, attempts
\* remaining, request for re-verification) and what it leaves in the identity
\* records and the ledger are the same whichever way the ciphertext fails,
\* and a handler that comes to decrypt answers InvalidCiphertext, 400, with
\* no session.
C26_OneDecryptError ==
    \A k \in FailureKinds :
        /\ ~rsaDecrypt(Failing(k)).ok
        /\ rsaDecrypt(Failing(k)).error = rsaDecrypt(Garbled).error
        /\ rsaDecrypt(Failing(k)).value = rsaDecrypt(Garbled).value
        /\ \A r \in IF Failing(k) = Garbled THEN {} ELSE GarbledRequests :
              LET a == HandledWith(r[1], r[2], Failing(k))
                  b == HandledWith(r[1], r[2], Garbled)
              IN  /\ a.p.verdict = b.p.verdict
                  /\ a.p.status = b.p.status
                  /\ a.p.token = b.p.token
                  /\ a.p.remaining = b.p.remaining
                  /\ a.p.reverify = b.p.reverify
                  /\ a.users = b.users
                  /\ a.ledger = b.ledger
                  /\ "decrypt" \in Range(a.p.calls) =>
                         /\ a.p.verdict = "InvalidCiphertext"
                         /\ a.p.status = 400
                         /\ a.p.token = <<>>
                         /\ a.users = users

\* a login of a registered identity has been answered InvalidCiphertext, the
\* ciphertext made with another key: the console alone names the failure
C26_Witness ==
    /\ LoginOf(PhoneA)
    /\ resp.verdict = "InvalidCiphertext"
    /\ resp.status = 400
    /\ resp.token = <<>>
    /\ resp.req.enc = WrongKey
    /\ resp.console = <<ConsoleError("RSA decryption failed:", <<"wrong_key">>)>>

----------------------------------------------------------------------------
(* The plaintext PIN *)

\* the PINs sent, or that could be sent, to the register and login routes
SentPins == {PinA, PinB, PinFive, PinSix, PinTrailing}

\* what is printed after the texts of the console lines of a handler
ConsoleDetails(p) == {p.console[i].detail : i \in 1..Len(p.console)}

\* the fields of an identity record and of an attempt record
UserFields ==
    {"id", "phone", "mpinHash", "mpinSalt", "devices", "failedAttempts",
     "lockedUntil", "createdAt", "lastLogin", "v"}

AttemptFields ==
    {"phone", "ip", "fingerprint", "userAgent", "success", "reason",
     "riskScore", "timestamp"}

\* pairs of PINs a request could carry: two that a registration accepts, two
\* that it refuses, two that a login of the registered identity refuses
PinPairs == {<<PinA, PinSix>>, <<PinFive, PinTrailing>>, <<PinB, PinFive>>}

\* the PINs that verify against the stored digest and salt of u
PinsOf(u) == {pin \in SentPins : verifyMpin(pin, u.mpinHash, u.mpinSalt)}

\* C25: in every state an identity record has the fields of the schema, of
\* which none holds a PIN that was sent: the credential is kept as the digest
\* of salt + PIN beside the salt; an attempt record has the fields of its
\* schema, none of them a PIN; no line the last handler wrote to the console
\* prints a PIN.  For every request and the pairs of PINs of PinPairs it
\* could carry, no console line prints the PIN, and if the answers have the
\* same verdict then the attempt records and the console lines are the same
\* and the identity records differ in the digest alone.
C25_NoPlaintextPin ==
    /\ \A ph \in DOMAIN users :
          LET u == users[ph]
          IN  /\ DOMAIN u = UserFields
              /\ u.phone \notin SentPins
              /\ u.mpinSalt \notin SentPins
              /\ \E pin \in SentPins : u.mpinHash = sha512Hash(pin, u.mpinSalt)
              /\ \A i \in 1..Len(u.devices) :
                    DOMAIN u.devices[i] = {"fingerprint", "userAgent", "lastUsed", "trusted"}
    /\ \A i \in 1..Len(ledger) :
          /\ DOMAIN ledger[i] = AttemptFields
          /\ ledger[i].phone \notin SentPins
    /\ ConsoleDetails(resp) \cap SentPins = {}
    /\ \A r \in GarbledRequests : \A pins \in PinPairs :
          LET a == HandledWith(r[1], r[2], Enc(pins[1]))
              b == HandledWith(r[1], r[2], Enc(pins[2]))
              Blind(U) == [ph \in DOMAIN U |-> [U[ph] EXCEPT !.mpinHash = 0]]
          IN  /\ ConsoleDetails(a.p) \cap SentPins = {}
              /\ ConsoleDetails(b.p) \cap SentPins = {}
              /\ a.p.verdict = b.p.verdict =>
                     /\ a.ledger = b.ledger
                     /\ a.p.console = b.p.console
                     /\ Blind(a.users) = Blind(b.users)

\* an identity registered with one PIN has been refused a login with another,
\* the ledger write failing: a record is stored, a line is on the console
C25_Witness ==
    /\ LoginOf(PhoneA)
    /\ resp.verdict = "WrongCredential"
    /\ resp.req.enc.plain = PinB
    /\ PinsOf(users[PhoneA]) = {PinA}
    /\ Len(resp.console) > 0
    /\ Len(ledger) > 0

----------------------------------------------------------------------------
(* The credential hasher *)

\* verifyMpin has been called on a digest of sha512Hash
Verified == resp.op = "verify" /\ resp.pc = "done"

\* C27: for every PIN of 4 or 6 digits and every salt, verifyMpin on the
\* digest sha512Hash made of them and that salt is true for the PIN itself
\* and false for every other digit string, of the same or of another length.
C27_VerifyIffSamePin ==
    /\ Verified => resp.out.equal = (resp.out.input = resp.out.mpin)
    /\ resp.op = "hash" =>
           verifyMpin(resp.out.mpin, sha512Hash(resp.out.mpin, resp.out.salt),
                      resp.out.salt)

\* a 6-digit string that continues the 4-digit PIN hashed is refused
C27_Witness ==
    /\ Verified
    /\ Len(resp.out.mpin) = 4
    /\ Len(resp.out.input) = 6
    /\ Take(resp.out.input, 4) = resp.out.mpin
    /\ ~resp.out.equal

----------------------------------------------------------------------------
(* Sessions and the lock under concurrency *)

\* C29 as claimed: whenever a login answers with a session, the stored state
\* of its identity is not Locked (lockedUntil is unset or now >= lockedUntil)
\* at that moment, whatever the interleaving of the concurrent logins.
C29_NoSessionWhileLocked ==
    [][\A i \in 1..MaxProcs :
          (/\ procs[i].pc # "done"
           /\ procs'[i].pc = "done"
           /\ procs'[i].op = "login"
           /\ procs'[i].verdict = "Success")
          => ~isLocked(users'[procs'[i].phone], now')]_vars

\* a session has been returned to a login that passed the lock check before
\* a concurrent fifth failure set the lock: the identity is Locked
C29_Witness ==
    /\ LoginOf(PhoneA)
    /\ resp.verdict = "Success"
    /\ resp.token # <<>>
    /\ ~isLocked(Before, CheckedAt)
    /\ Before.failedAttempts = MaxFailedAttempts - 1
    /\ isLocked(users[PhoneA], now)

----------------------------------------------------------------------------
(* Sessions and keys across process starts *)

\* POST /verify-token has answered
TokenChecked == resp.op = "verify-token" /\ resp.pc = "done"

\* the token presented
Presented == resp.token[1]

\* the claims of the identity the token was issued to
IssuedClaims ==
    <<[userId |-> users[Presented.phone].id, phone |-> Presented.phone,
       iat |-> Presented.iat, exp |-> Presented.iat + TokenMinutes * 60]>>

\* the JWT secret of the process that answered
VerifierSecret ==
    IF server.env # <<>> THEN [configured |-> server.env[1]]
    ELSE [random |-> resp.out.process]

\* the time t at which the token presented was issued, and t + 15 minutes, in
\* milliseconds
IssuedAt == Presented.iat * 1000 + Presented.late

LapsesAt == IssuedAt + TokenMinutes * 60000

\* C23 as claimed: a token issued at t verifies to the id and phone of its
\* identity at every time before t + 15 minutes, and is invalid at every time
\* from t + 15 minutes on.
C23_ValidForFifteenMinutes ==
    TokenChecked =>
        IF resp.out.clock < LapsesAt
        THEN resp.out.decoded = IssuedClaims /\ resp.status = 200
        ELSE resp.out.decoded = <<>> /\ resp.status = 401

\* C23: a token issued at t carries the whole second of t as iat and that
\* second plus 900 as exp.  It is invalid at every time whose whole second is
\* exp or later, hence at every time from t + 15 minutes on and already in
\* the part of a second before it that t is past its whole second.  At every
\* earlier time it verifies, to the id and phone of its identity, exactly when
\* the process that verifies it holds the secret it was signed with, which is
\* so at every such time when JWT_SECRET is configured, and otherwise as long
\* as the process that issued it is the one that answers.
C23_ValidWhileSecretHeld ==
    TokenChecked =>
        /\ Presented.phone \in DOMAIN users
        /\ Presented.iat = IssuedAt \div 1000
        /\ Presented.late \in 0..999
        /\ Presented.exp = Presented.iat + TokenMinutes * 60
        /\ resp.out.clock >= LapsesAt =>
               resp.out.decoded = <<>> /\ resp.status = 401
        /\ resp.out.clock \div 1000 >= Presented.exp =>
               resp.out.decoded = <<>> /\ resp.status = 401
        /\ resp.out.clock \div 1000 < Presented.exp =>
               IF Presented.key = VerifierSecret
               THEN resp.out.decoded = IssuedClaims /\ resp.status = 200
               ELSE resp.out.decoded = <<>> /\ resp.status = 401
        /\ server.env # <<>> => Presented.key = VerifierSecret

\* a token issued 900 ms into a second is refused 15 minutes after that
\* second began, 900 ms before t + 15 minutes, by the process that issued it
C23_Witness ==
    /\ TokenChecked
    /\ IssuedAt % 1000 = 900
    /\ resp.out.clock = LapsesAt - 900
    /\ Presented.key = VerifierSecret
    /\ resp.out.decoded = <<>>
    /\ resp.status = 401

\* C24: a step generates a key pair only when it is a start that finds the
\* two key files not both there; once both files exist no step changes them;
\* a process that is up holds what the files hold, so that every start after
\* both files exist loads the same pair and exports the same public key.
C24_KeyPairNeverRotated ==
    [][/\ server'.generated \in {server.generated, server.generated + 1}
       /\ server'.generated # server.generated =>
              ~KeyFilesExist(server) /\ ~server.up /\ server'.drawn = server.drawn + 1
       /\ KeyFilesExist(server) => server'.disk = server.disk
       /\ server'.up =>
              /\ KeyFilesExist(server')
              /\ server'.publicKey = server'.disk.public
              /\ server'.privateKey = server'.disk.private
       /\ (server'.up /\ KeyFilesExist(server)) =>
              /\ server'.publicKey = server.disk.public
              /\ server'.privateKey = server.disk.private
       /\ (server.up /\ server'.up) =>
              /\ server'.publicKey = server.publicKey
              /\ server'.privateKey = server.privateKey]_vars

\* the process is up after its third start, on the first pair generated
C24_Witness ==
    /\ server.up
    /\ server.drawn = MaxStarts
    /\ server.generated = 1
    /\ server.publicKey = <<Pem(1)>>
    /\ server.disk = [private |-> <<Pem(1)>>, public |-> <<Pem(1)>>]

----------------------------------------------------------------------------
(* The scorer over a long history: the attempts that open it, logged in one
   minute or a minute apart, then a run of like attempts a minute apart; a
   wait of a minute less than the window of the query; calls of the scorer
   and inserts of the ledger that complete while the next call is made *)

\* the attempts that open a history
MaxSingles == 2

\* the longest history
MaxWindowLedger == 52

\* when logLoginAttempt is called, fewer than this many attempts dated after
\* a call still awaiting its insert have been recorded
MaxLag == 1

\* the calls of logLoginAttempt made so far
LogCalls == Len(ledger) + Cardinality(Awaiting("log"))

\* the run of like attempts is under way
InRun == LogCalls > MaxSingles

\* the place in the ledger of the record dated last
Newest(L) == CHOOSE i \in 1..Len(L) : \A j \in 1..Len(L) : L[j].timestamp <= L[i].timestamp

\* the data logLoginAttempt was called with for a record
AttemptOf(a) ==
    [phone |-> a.phone, ip |-> a.ip, fingerprint |-> a.fingerprint,
     userAgent |-> a.userAgent, success |-> a.success, reason |-> a.reason,
     riskScore |-> a.riskScore]

\* the calls in flight may go on awaiting when the next attempt is logged: a
\* find answers before the second next attempt is logged, an insert before
\* MaxLag attempts dated after its call are recorded and another is logged
MayAwait ==
    /\ \A i \in Awaiting("score") : procs[i].issued = now
    /\ \A i \in Awaiting("log") :
          Cardinality({k \in 1..Len(ledger) : ledger[k].timestamp > procs[i].issued})
              < MaxLag

\* logLoginAttempt is called with an attempt that opens the history or the
\* run: in the minute of the last call or a minute later while the history
\* opens, a minute after the last call when the run opens
WindowLogCalled ==
    /\ LogCalls < MaxWindowLedger
    /\ ~InRun
    /\ MayAwait
    /\ \E r \in ScoreRecords :
       \E d \in IF LogCalls = 0 THEN {0} ELSE IF LogCalls < MaxSingles THEN {0, 1} ELSE {1} :
          /\ now' = now + d
          /\ Called(LogCalledAt(ScoreAttempt(r), now + d))
    /\ resp' = Idle
    /\ obs' = <<>>
    /\ UNCHANGED <<users, ledger, server>>

\* the run goes on: a minute after the last call, whose insert has completed,
\* logLoginAttempt is called with the same attempt
WindowLogNext ==
    /\ LogCalls < MaxWindowLedger
    /\ InRun
    /\ MayAwait
    /\ Len(ledger) >= 1
    /\ \A i \in Awaiting("log") : procs[i].issued < ledger[Newest(ledger)].timestamp
    /\ now' = now + 1
    /\ Called(LogCalledAt(AttemptOf(ledger[Newest(ledger)]), now + 1))
    /\ resp' = Idle
    /\ obs' = <<>>
    /\ UNCHANGED <<users, ledger, server>>

\* the insert of a call of logLoginAttempt completes
WindowLogInserted ==
    \E i \in Awaiting("log") :
        /\ ledger' = logLoginAttempt(ledger, procs[i].out, procs[i].issued, TRUE)
        /\ procs' = [procs EXCEPT ![i] = Idle]
        /\ resp' = Idle
        /\ obs' = <<>>
        /\ UNCHANGED <<users, now, server>>

\* a minute less than 30 days pass, once, while the history opens
Age ==
    /\ LogCalls \in 1..(MaxSingles - 1)
    /\ now < HistoryWindow
    /\ now' = now + HistoryWindow - 1
    /\ resp' = Idle
    /\ obs' = <<>>
    /\ UNCHANGED <<users, ledger, procs, server>>

\* the calls of calculateRiskScore: from the origin of the successes and from
\* that of the failures
WindowRequests ==
    {ScoreCall(PhoneA, Home.ip, Home.fingerprint, TRUE),
     ScoreCall(PhoneA, Away.ip, Away.fingerprint, TRUE)}

\* the last answer is that of a call made with req and answered in this
\* minute
AnsweredNow(req) ==
    /\ resp.op = "score" /\ resp.pc = "done"
    /\ resp.req = req
    /\ resp.issued = now /\ resp.at = now

\* calculateRiskScore is called; when the call repeats the last one in the
\* minute it was made and answered in, the caller keeps the answer it has
WindowScoreCalled ==
    /\ Awaiting("score") = {}
    /\ \E req \in WindowRequests :
          /\ Called(ScoreCalledAt(req, now))
          /\ obs' = IF AnsweredNow(req) THEN Observed(<<>>, req.phone, resp) ELSE <<>>
    /\ resp' = Idle
    /\ UNCHANGED <<users, ledger, now, server>>

\* the find of a call of calculateRiskScore answers and the call returns
WindowScoreAnswered ==
    \E i \in Awaiting("score") :
    \E first \in TieOrders(ledger, procs[i].phone, procs[i].issued) :
        /\ resp' = ScoreAnsweredAt(ledger, procs[i], now, first)
        /\ procs' = [procs EXCEPT ![i] = Idle]
        /\ UNCHANGED <<users, ledger, now, obs, server>>

NextWindow ==
    WindowLogCalled \/ WindowLogNext \/ WindowLogInserted \/ Age
        \/ WindowScoreCalled \/ WindowScoreAnswered

SpecWindow == Init /\ [][NextWindow]_vars

----------------------------------------------------------------------------
(* Concurrent logins and registers of a registered identity, from the origin
   of its registration and from a first-seen one *)

\* the attempt records up to which requests arrive
MaxBindLedger == 3

\* the identity registered from Home
InitBind ==
    /\ server = Boot(Installed)
    /\ users = AfterFailures(0).users
    /\ ledger = AfterFailures(0).ledger
    /\ now = 0
    /\ resp = AfterFailures(0).p
    /\ procs = AllIdle
    /\ obs = AfterFailures(0).obs

BindLoginRequests ==
    {LoginFrom(PhoneA, Enc(PinA), Home), LoginFrom(PhoneA, Enc(PinA), Away)}

BindRegisterRequests == {RegisterFrom(PhoneA, Enc(PinA), Away)}

\* a request arrives
BindArrive(i, op, req) ==
    /\ Len(ledger) + NumInFlight < MaxBindLedger
    /\ Arrive(i, op, req)

BindArriveLogin ==
    \E i \in 1..MaxProcs : \E req \in BindLoginRequests : BindArrive(i, "login", req)

BindArriveRegister ==
    \E i \in 1..MaxProcs : \E req \in BindRegisterRequests : BindArrive(i, "register", req)

NextBind == BindArriveLogin \/ BindArriveRegister \/ Proceed

SpecBind == InitBind /\ [][NextBind]_vars

----------------------------------------------------------------------------
(* A registration followed by many attempts a minute apart: runs of failed
   logins from one origin, each opened by any login, the wait for the lock to
   expire and the wait for the 30th day after the registration *)

\* the longest ledger
MaxFloodLedger == 52

\* the attempts of a run
BurstSize == 25

\* the logins that open a run
FloodLoginRequests ==
    {LoginFrom(PhoneA, Enc(PinA), Home), LoginFrom(PhoneA, Enc(PinA), Away),
     LoginFrom(PhoneA, Enc(PinB), Home), LoginFrom(PhoneA, Enc(PinB), Away)}

\* the attempts recorded since the last run of BurstSize ended
SinceRun == (Len(ledger) - 1) % BurstSize

\* a request sent a minute after the last was answered
FloodSend(op, req) ==
    /\ NoneInFlight
    /\ procs' = [procs EXCEPT ![1] = NewProc(op, "find", req)]
    /\ resp' = Idle
    /\ now' = now + 1
    /\ UNCHANGED <<users, ledger, obs, server>>

\* the registration, from Home
FloodRegister ==
    /\ Len(ledger) = 0
    /\ FloodSend("register", RegisterFrom(PhoneA, Enc(PinA), Home))

\* a login opens a run
FloodLogin ==
    /\ Len(ledger) >= 1
    /\ Len(ledger) < MaxFloodLedger
    /\ SinceRun = 0
    /\ \E req \in FloodLoginRequests : FloodSend("login", req)

\* the run goes on: a failed login from the origin of the last attempt
FloodNext ==
    /\ Len(ledger) >= 1
    /\ Len(ledger) < MaxFloodLedger
    /\ SinceRun # 0
    /\ FloodSend("login",
                  LoginFrom(PhoneA, Enc(PinB),
                             [ip |-> ledger[Len(ledger)].ip,
                              fingerprint |-> ledger[Len(ledger)].fingerprint]))

\* between runs, the client waits until its next request falls on the minute
\* the lock expires
WaitUnlock ==
    /\ NoneInFlight
    /\ Len(ledger) >= 1
    /\ SinceRun = 0
    /\ isLocked(users[PhoneA], now + 1)
    /\ now' = users[PhoneA].lockedUntil - 1
    /\ UNCHANGED <<users, ledger, resp, procs, obs, server>>

\* between runs, the client waits until its next request falls on the 30th
\* day after the registration
WaitMonth ==
    /\ NoneInFlight
    /\ Len(ledger) >= 1
    /\ SinceRun = 0
    /\ now + 1 < ledger[1].timestamp + HistoryWindow
    /\ now' = ledger[1].timestamp + HistoryWindow - 1
    /\ UNCHANGED <<users, ledger, resp, procs, obs, server>>

NextFlood ==
    FloodRegister \/ FloodLogin \/ FloodNext \/ Proceed \/ WaitUnlock \/ WaitMonth

SpecFlood == Init /\ [][NextFlood]_vars

----------------------------------------------------------------------------
(* Claims C31..C39 *)

\* the attempts recorded for the identity of the last assessment
History == SelectSeq(ledger, LAMBDA a : a.phone = resp.phone)

\* the IPs and the fingerprints of its successful attempts
SuccessIps == {History[i].ip : i \in {j \in 1..Len(History) : History[j].success}}

SuccessFingerprints ==
    {History[i].fingerprint : i \in {j \in 1..Len(History) : History[j].success}}

\* the last assessment read the ledger
ScoredHistory == Scored /\ resp.req.readOk

\* C31: the scorer returns block only with new_ip or new_device among the
\* flags; an attempt whose IP and fingerprint are both among those of the
\* successful attempts of the history, or whose history holds no successful
\* attempt, scores at most 55 and is not blocked.
C31_BlockNeedsNewOrigin ==
    Scored =>
        LET flags == Range(resp.risk.flags)
        IN  /\ resp.risk.action = "block" => flags \cap {"new_ip", "new_device"} # {}
            /\ (/\ resp.req.readOk
                /\ \/ SuccessIps = {}
                   \/ /\ resp.req.ip \in SuccessIps
                      /\ resp.req.fingerprint \in SuccessFingerprints)
               => /\ flags \cap {"new_ip", "new_device"} = {}
                  /\ resp.risk.score <= 55
                  /\ resp.risk.action # "block"

\* an attempt from a known IP and fingerprint with every other rule fired:
\* 55 points, warn
C31_Witness ==
    /\ ScoredHistory
    /\ resp.req.ip \in SuccessIps
    /\ resp.req.fingerprint \in SuccessFingerprints
    /\ resp.risk.flags = <<"rapid_attempts", "high_failure_rate", "unusual_hour">>
    /\ resp.risk.score = 55
    /\ resp.risk.action = "warn"

\* C34: new_ip is flagged exactly when the history holds a successful attempt
\* and none of its successful attempts came from the current IP, new_device
\* likewise for the fingerprint: an IP or fingerprint seen on failed attempts
\* only is not known, and neither flag fires without a successful attempt.
C34_KnownFromSuccesses ==
    ScoredHistory =>
        LET flags == Range(resp.risk.flags)
        IN  /\ ("new_ip" \in flags) =
                  (SuccessIps # {} /\ resp.req.ip \notin SuccessIps)
            /\ ("new_device" \in flags) =
                  (SuccessFingerprints # {}
                      /\ resp.req.fingerprint \notin SuccessFingerprints)

\* the IP and the fingerprint of the attempt are in the history, on failed
\* attempts only, beside a success from elsewhere: both flags fire
C34_Witness ==
    /\ ScoredHistory
    /\ \E i \in 1..Len(History) :
          /\ ~History[i].success
          /\ History[i].ip = resp.req.ip
          /\ History[i].fingerprint = resp.req.fingerprint
    /\ SuccessIps # {}
    /\ {"new_ip", "new_device"} \subseteq Range(resp.risk.flags)

\* the attempts of the history recorded in the 5 minutes before the scorer
\* read the clock for them, its query answered
RapidHistory ==
    SelectSeq(History, LAMBDA a : a.timestamp >= resp.at - RapidWindow)

\* C35: rapid_attempts is flagged exactly when more than 3 records of the
\* history, successes and failures alike, have a timestamp in the 5 minutes
\* before now, the clock as the scorer reads it for them once its query has
\* answered; the attempt being scored is not counted.
C35_RapidOverThree ==
    ScoredHistory =>
        ("rapid_attempts" \in Range(resp.risk.flags)) = (Len(RapidHistory) > RapidLimit)

\* four records in the 5 minutes before the answer of a query called before
\* the last of them was logged, successes and failures among them
C35_Witness ==
    /\ ScoredHistory
    /\ Len(RapidHistory) = RapidLimit + 1
    /\ \E i \in 1..Len(RapidHistory) : RapidHistory[i].timestamp > resp.issued
    /\ \E i \in 1..Len(RapidHistory) : RapidHistory[i].success
    /\ \E i \in 1..Len(RapidHistory) : ~RapidHistory[i].success
    /\ "rapid_attempts" \in Range(resp.risk.flags)

\* the positions in the ledger of the records the claim lets the scorer depend
\* on: those of the identity dated within the 30 days before the call
\* that have fewer than 50 such records ahead of them, a record being ahead of
\* those dated before it and, of the records of its minute, of those the store
\* returned after it
Relevant ==
    LET Dated(i) == /\ ledger[i].phone = resp.phone
                    /\ ledger[i].timestamp >= resp.issued - HistoryWindow
        Ahead(j, i) ==
            \/ ledger[j].timestamp > ledger[i].timestamp
            \/ /\ ledger[j].timestamp = ledger[i].timestamp
               /\ \/ j \in resp.ties /\ i \notin resp.ties
                  \/ (j \in resp.ties) = (i \in resp.ties) /\ j > i
    IN  {i \in 1..Len(ledger) :
            /\ Dated(i)
            /\ Cardinality({j \in 1..Len(ledger) : Dated(j) /\ Ahead(j, i)})
                   < HistoryLimit}

\* the records of L at the positions of S, in order
RECURSIVE KeptFrom(_, _, _)
KeptFrom(L, S, i) ==
    IF i > Len(L) THEN <<>>
    ELSE (IF i \in S THEN <<L[i]>> ELSE <<>>) \o KeptFrom(L, S, i + 1)

\* a record turned into the other record of the scenario
Opposite(a) ==
    IF a.success
    THEN [a EXCEPT !.success = FALSE, !.reason = "wrong_mpin",
                   !.ip = Away.ip, !.fingerprint = Away.fingerprint]
    ELSE [a EXCEPT !.success = TRUE, !.reason = "success",
                   !.ip = Home.ip, !.fingerprint = Home.fingerprint]

\* the ledger with every record outside S turned into its opposite
OthersTurned(L, S) == [i \in 1..Len(L) |-> IF i \in S THEN L[i] ELSE Opposite(L[i])]

\* the last call of the scorer, made on ledger L
ScoreOn(L) ==
    calculateRiskScore(L, resp.req.phone, resp.req.ip, resp.req.fingerprint,
                       resp.issued, resp.at, resp.req.readOk, resp.ties)

\* C36: the result of the scorer depends only on the at most 50 most recent
\* records of the identity dated within the 30 days before now, the clock as
\* the scorer reads it for its query when it is called: it is the result on
\* the ledger without the other records, and the result on the ledger with the
\* other records changed.
C36_OnlyRecentWindow ==
    ScoredHistory =>
        \E kept \in {Relevant} :
            /\ Cardinality(kept) <= HistoryLimit
            /\ resp.risk = ScoreOn(KeptFrom(ledger, kept, 1))
            /\ resp.risk = ScoreOn(OthersTurned(ledger, kept))

\* a history of 50 failed attempts from Away, a success from Home older than
\* 30 days at the call and a success from Home that was logged before the 50
\* and inserted after the first of them, the 51st most recent by its date: an
\* attempt from Away, answered a minute after its call, is flagged neither
\* new_ip nor new_device
C36_Witness ==
    /\ ScoredHistory
    /\ resp.issued < resp.at
    /\ Cardinality(Relevant) = HistoryLimit
    /\ \A i \in Relevant : ~ledger[i].success
    /\ \E i \in 1..Len(ledger) :
          /\ ledger[i].success
          /\ ledger[i].phone = resp.phone
          /\ ledger[i].timestamp < resp.issued - HistoryWindow
    /\ \E i \in (1..Len(ledger)) \ Relevant :
          /\ ledger[i].success
          /\ ledger[i].phone = resp.phone
          /\ ledger[i].timestamp >= resp.issued - HistoryWindow
          /\ \E j \in Relevant : j < i
    /\ resp.req.ip = Away.ip
    /\ resp.req.fingerprint = Away.fingerprint
    /\ Range(resp.risk.flags) \cap {"new_ip", "new_device"} = {}

\* the fields of an identity the lockout and the device binding write
Standing(u) ==
    [failedAttempts |-> u.failedAttempts, lockedUntil |-> u.lockedUntil,
     devices |-> u.devices, lastLogin |-> u.lastLogin]

\* C33: a login answered AccountLocked or RiskBlocked leaves the failure
\* counter, the lock expiry, the device bindings and the last-login time of
\* every identity as they were: an attempt made while locked does not extend
\* the lock, a blocked attempt does not count toward the lockout.
C33_RejectedLoginKeepsIdentity ==
    [][(/\ resp'.op = "login"
        /\ resp'.pc = "done"
        /\ resp'.verdict \in {"AccountLocked", "RiskBlocked"})
       => /\ DOMAIN users' = DOMAIN users
          /\ \A ph \in DOMAIN users : Standing(users'[ph]) = Standing(users[ph])]_vars

\* a blocked attempt on an identity with failed attempts counted: the
\* identity is as the handler loaded it
C33_Witness ==
    /\ LoginOf(PhoneA)
    /\ resp.verdict = "RiskBlocked"
    /\ Before.failedAttempts >= 1
    /\ resp.logs = 1
    /\ Standing(users[PhoneA]) = Standing(Before)

\* the successful attempts of identity ph the scorer would read now
SuccessesOf(ph) ==
    SelectSeq(RecentAttempts(ledger, ph, now, {}), LAMBDA a : a.success)

\* a login now for ph with a ciphertext of pin from ip and fingerprint
LoginNow(ph, pin, ip, fingerprint) ==
    Run(users, ledger,
        NewProc("login", "find",
                LoginFrom(ph, Enc(pin), [ip |-> ip, fingerprint |-> fingerprint])),
        now)

\* C32: no lock is permanent.  The lock expiry of an identity is never more
\* than 30 minutes ahead, and whenever now >= lockedUntil a login sent with a
\* ciphertext of the PIN of the identity, from an IP and a fingerprint found
\* among the successful attempts of the scorer's window, is answered with a
\* session, whatever failed, locked or blocked attempts came before; the
\* identity is then unlocked with its counter at 0.
C32_NoPermanentLockout ==
    \A ph \in DOMAIN users :
        /\ users[ph].lockedUntil <= now + LockMinutes
        /\ (NoneInFlight /\ now >= users[ph].lockedUntil) =>
              \E ok \in {SuccessesOf(ph)} :
              \A ip \in {ok[i].ip : i \in 1..Len(ok)} :
              \A fingerprint \in {ok[i].fingerprint : i \in 1..Len(ok)} :
              \A pin \in PinsOf(users[ph]) :
                  \E o \in {LoginNow(ph, pin, ip, fingerprint)} :
                      /\ o.p.verdict = "Success"
                      /\ o.p.status = 200
                      /\ Has(o.p.token)
                      /\ o.users[ph].failedAttempts = 0
                      /\ o.users[ph].lockedUntil = NoDate

\* an identity locked after 5 failed attempts, with a further attempt refused
\* while locked, at the minute its lock expires: a login with its PIN from the
\* origin of its registration returns a session
C32_Witness ==
    /\ PhoneA \in DOMAIN users
    /\ NoneInFlight
    /\ users[PhoneA].lockedUntil = now
    /\ \E i \in 1..Len(ledger) : ledger[i].reason = "account_locked"
    /\ Cardinality({i \in 1..Len(ledger) : ledger[i].reason = "wrong_mpin"})
           >= MaxFailedAttempts
    /\ Len(SuccessesOf(PhoneA)) >= 1
    /\ PinsOf(users[PhoneA]) # {}
    /\ LoginNow(PhoneA, PinA, Home.ip, Home.fingerprint).p.verdict = "Success"

\* the register requests that have been answered
AnsweredRegisters == {i \in 1..MaxProcs : procs[i].op = "register" /\ procs[i].pc = "done"}

\* C38 as claimed: under concurrent register requests for one phone at most
\* one of them is answered with a session, and every other one is answered
\* AlreadyRegistered.
C38_LoserAlreadyRegistered ==
    /\ Cardinality({i \in AnsweredRegisters : Has(procs[i].token)}) <= 1
    /\ \A i \in AnsweredRegisters :
          procs[i].verdict \in {"Registered", "AlreadyRegistered"}

\* two registers for the phone both found no identity; one created it and got
\* the session, the create of the other was refused by the unique index and
\* it is answered 500
C38_Witness ==
    /\ AnsweredRegisters = 1..MaxProcs
    /\ \A i \in AnsweredRegisters : procs[i].phone = PhoneA /\ procs[i].pre = <<>>
    /\ \E i, j \in AnsweredRegisters :
          /\ procs[i].verdict = "Registered" /\ procs[i].status = 201
          /\ Has(procs[i].token)
          /\ procs[j].verdict = "ServerError" /\ procs[j].status = 500
          /\ ~Has(procs[j].token)
    /\ DOMAIN users = {PhoneA}

\* the fingerprints of the bindings of an identity, in order
BoundFingerprints(u) == [i \in 1..Len(u.devices) |-> u.devices[i].fingerprint]

\* C37 as claimed: after any interleaving of registers and successful logins
\* the device list of an identity holds no two bindings with the same
\* fingerprint.
C37_NoDuplicateBinding ==
    \A ph \in DOMAIN users :
        \A i, j \in 1..Len(users[ph].devices) :
            users[ph].devices[i].fingerprint = users[ph].devices[j].fingerprint => i = j

\* two logins from the first-seen fingerprint both loaded the identity before
\* either saved its binding: both pushed one and both got a session
C37_Witness ==
    /\ \A i \in 1..MaxProcs :
          /\ procs[i].op = "login" /\ procs[i].pc = "done"
          /\ procs[i].verdict = "Success"
          /\ procs[i].req.fingerprint = Away.fingerprint
    /\ BoundFingerprints(users[PhoneA])
          = <<Home.fingerprint, Away.fingerprint, Away.fingerprint>>

\* the ledger as the last handler found it
PriorLedger == SubSeq(ledger, 1, Len(ledger) - resp.logs)

\* the attempt record of the registration
Registration == ledger[1]

\* the last response is that of a login that reached the scorer within the 30
\* days after the registration of its identity, the attempt record of which
\* was persisted
ScoredAfterRegistration ==
    /\ resp.op = "login" /\ resp.pc = "done"
    /\ Has(resp.calls) /\ "score" \in Range(resp.calls)
    /\ resp.req.readOk
    /\ Len(PriorLedger) >= 1
    /\ Registration.phone = resp.phone
    /\ Registration.success
    /\ CheckedAt <= Registration.timestamp + HistoryWindow

\* the IPs and the fingerprints of the successful attempts recorded for the
\* identity before the last handler ran
PriorSuccesses ==
    {i \in 1..Len(PriorLedger) :
        PriorLedger[i].phone = resp.phone /\ PriorLedger[i].success}

\* the attempt is flagged as the comparison with the registration requires:
\* not new where it matches the registration, new where it matches no
\* successful attempt
ComparedWithRegistration ==
    LET flags == Range(resp.risk.flags)
        fingerprint == FingerprintOrUnknown(resp.req.fingerprint)
    IN  /\ resp.req.ip = Registration.ip => "new_ip" \notin flags
        /\ fingerprint = Registration.fingerprint => "new_device" \notin flags
        /\ (\A i \in PriorSuccesses : PriorLedger[i].ip # resp.req.ip)
              => "new_ip" \in flags
        /\ (\A i \in PriorSuccesses : PriorLedger[i].fingerprint # fingerprint)
              => "new_device" \in flags

\* C39 as claimed: every login within the 30 days after a registration whose
\* attempt record was persisted sees a non-empty history: first_login is not
\* flagged, and its IP and fingerprint are compared with those of the
\* registration.
C39_ComparedWithRegistration ==
    ScoredAfterRegistration =>
        /\ "first_login" \notin Range(resp.risk.flags)
        /\ ComparedWithRegistration

\* C39, amended: such a login sees a non-empty history and first_login is not
\* flagged; its IP and fingerprint are compared with those of the registration
\* while fewer than 50 attempts have been recorded for the identity since.
C39_ComparedWhileAmongFifty ==
    ScoredAfterRegistration =>
        /\ "first_login" \notin Range(resp.risk.flags)
        /\ Len(PriorLedger) <= HistoryLimit => ComparedWithRegistration

\* 30 days after the registration a login from Away is flagged new_ip and
\* new_device against the registration from Home
C39_Witness ==
    /\ ScoredAfterRegistration
    /\ CheckedAt = Registration.timestamp + HistoryWindow
    /\ resp.req.ip = Away.ip
    /\ Registration.ip = Home.ip
    /\ {"new_ip", "new_device"} \subseteq Range(resp.risk.flags)
    /\ "first_login" \notin Range(resp.risk.flags)

====
